---- MODULE Spec2Model ----
(***************************************************************************)
(* A model of the Wordle bot of src/src/demo.ts (class EnhancedAIWordleBot,*)
(* lines 92-1174) together with the dictionary service it consults         *)
(* (src/unnamed/part_005).                                                 *)
(*                                                                         *)
(* Conventions.                                                            *)
(*  - A word is a sequence of one-letter strings; positions are 1-based    *)
(*    here, so position p of the model is index p-1 of the source.         *)
(*  - Scores are fixed-point numbers in thousandths (7.5 is 7500).         *)
(*  - `undefined` results are records with status "undefined"; a thrown    *)
(*    exception is a record with status "throw".                           *)
(***************************************************************************)
EXTENDS Integers, Sequences, FiniteSets, TLC

VARIABLES
    startingWords,        \* this.startingWords (the same array as config.strategy.startingWords)
    letterFrequencies,    \* this.letterFrequencies
    positionFrequencies,  \* this.positionFrequencies
    gameHistory,          \* this.gameHistory
    dictionary,           \* how the dictionary APIs answer
    dictionaryCache,      \* dictionaryService.cache
    pc,                   \* where the caller of the bot stands
    secret,               \* the puzzle server's hidden word
    gameData,             \* playGame: the record of the running game
    currentGuess,         \* playGame: currentGuess
    attempt,              \* playGame: the loop counter
    analysis,             \* playGame: the analysis handed to generateNextGuess
    call,                 \* the last direct call of a public operation and its result
    lru,                  \* an LRUCache: maxSize, ttl and the Map in insertion order
    now,                  \* Date.now()
    inflight              \* the HTTP requests that were sent and have not completed

vars == <<startingWords, letterFrequencies, positionFrequencies, gameHistory,
          dictionary, dictionaryCache, pc, secret, gameData, currentGuess, attempt, analysis, call,
          lru, now, inflight>>

(***************************************************************************)
(* Bounds of the model.                                                    *)
(***************************************************************************)
\* how many words of the configured starting list a bot is built with (0..NumStartingWords)
NumStartingWords == 3
\* how many words of EnglishWords the bounded dictionaries know (0..NumLexicon)
NumLexicon == 3
\* how many secrets of SecretWords the puzzle server may hold
NumSecrets == 3
\* how many letters the exhaustive guess/secret enumeration of the simulator uses
NumSimLetters == 2
\* how many games one bot plays
MaxGames == 1
NumSpecialWords == 2

(***************************************************************************)
(* Program constants.                                                      *)
(***************************************************************************)
wordLength == 5
maxAttempts == 6
beamWidth == 100
startBonus == 10
vowelBonus == 5
commonEndBonus == 3

Null == -1
\* config.api.dictionary: batchSize and cache.maxSize
batchSize == 5
cacheMaxSize == 2000
\* config.api.retries
retries == 3

Alphabet ==
    <<"A","B","C","D","E","F","G","H","I","J","K","L","M",
      "N","O","P","Q","R","S","T","U","V","W","X","Y","Z">>

Range(s) == {s[i] : i \in 1..Len(s)}

Letters == Range(Alphabet)

Positions == 1..wordLength

vowels == <<"A","E","I","O","U">>
commonStart == <<"S","C","T","A","R">>
commonEnd == <<"E","R","T","Y","N">>

W_STARE == <<"S","T","A","R","E">>
W_CRANE == <<"C","R","A","N","E">>
W_SLATE == <<"S","L","A","T","E">>
W_TRACE == <<"T","R","A","C","E">>
W_ADIEU == <<"A","D","I","E","U">>
W_AUDIO == <<"A","U","D","I","O">>
W_RAISE == <<"R","A","I","S","E">>
W_ARISE == <<"A","R","I","S","E">>

ConfigStartingWords ==
    <<W_STARE, W_CRANE, W_SLATE, W_TRACE, W_ADIEU, W_AUDIO, W_RAISE, W_ARISE,
      W_STARE, W_CRANE, W_SLATE, W_TRACE, W_ADIEU, W_AUDIO, W_RAISE, W_ARISE,
      W_STARE, W_CRANE, W_SLATE, W_TRACE>>

(***************************************************************************)
(* Small helpers on sequences.                                             *)
(***************************************************************************)
Includes(s, x) == \E i \in 1..Len(s) : s[i] = x

Count(word, ch) == Cardinality({i \in 1..Len(word) : word[i] = ch})

Min(a, b) == IF a < b THEN a ELSE b
Max(a, b) == IF a > b THEN a ELSE b

\* the element of a set that has one element: Only({e : x \in {v}}) is e with v for x
Only(S) == CHOOSE x \in S : TRUE

Reverse(s) == [k \in 1..Len(s) |-> s[Len(s) + 1 - k]] \o << >>

\* the largest number of a set, 0 for the empty set
Max0(S) == IF S = {} THEN 0 ELSE CHOOSE x \in S : \A y \in S : y <= x

\* Array.prototype.slice(0, n)
Slice(s, n) == SubSeq(s, 1, Min(n, Len(s)))

(***************************************************************************)
(* Outcome simulator: computePattern, partitionByPattern, worstCaseBucket. *)
(***************************************************************************)
Grey == "grey"
Green == "green"
Yellow == "yellow"

\* secretLetters after the counting loop
SecretLetters(secretWord) == [ch \in Letters |-> Count(secretWord, ch)]

\* a green consumes one occurrence without any check
ConsumeGreenNot(counts, ch) == counts

\* secretLetters.set(guess[i], (secretLetters.get(guess[i]) || 1) - 1)
ConsumeGreen(counts, ch) ==
    [counts EXCEPT ![ch] = (IF counts[ch] = 0 THEN 1 ELSE counts[ch]) - 1]

\* first pass, positions i..Len(guess); st = [result, counts]
RECURSIVE GreenPass(_, _, _, _)
GreenPass(guess, secretWord, i, st) ==
    IF i > Len(guess) THEN st
    ELSE IF i <= Len(secretWord) /\ guess[i] = secretWord[i]
         THEN GreenPass(guess, secretWord, i + 1,
                        [result |-> [st.result EXCEPT ![i] = Green],
                         counts |-> ConsumeGreen(st.counts, guess[i])])
         ELSE GreenPass(guess, secretWord, i + 1, st)

\* second pass, positions i..Len(guess)
RECURSIVE YellowPass(_, _, _)
YellowPass(guess, i, st) ==
    IF i > Len(guess) THEN st
    ELSE IF st.result[i] = Grey /\ st.counts[guess[i]] > 0
         THEN YellowPass(guess, i + 1,
                         [result |-> [st.result EXCEPT ![i] = Yellow],
                          counts |-> [st.counts EXCEPT ![guess[i]] = @ - 1]])
         ELSE YellowPass(guess, i + 1, st)

computePattern(guess, secretWord) ==
    YellowPass(guess, 1,
               GreenPass(guess, secretWord, 1,
                         [result |-> [i \in 1..Len(guess) |-> Grey],
                          counts |-> SecretLetters(secretWord)])).result

\* partitionByPattern: the pattern of every secret, in the order of the secrets
partitionByPattern(guess, secrets) ==
    [i \in 1..Len(secrets) |-> computePattern(guess, secrets[i])] \o << >>

\* the bucket sizes of a partition, one pair <<pattern, size>> per bucket
BucketSizes(pats) == {<<pats[i], Count(pats, pats[i])>> : i \in 1..Len(pats)}

RECURSIVE SetMax(_)
SetMax(S) ==
    IF S = {} THEN 0
    ELSE LET x == CHOOSE y \in S : TRUE IN Max(x[2], SetMax(S \ {x}))

RECURSIVE SetSum(_)
SetSum(S) ==
    IF S = {} THEN 0
    ELSE LET x == CHOOSE y \in S : TRUE IN x[2] + SetSum(S \ {x})

worstCaseBucket(guess, secrets) ==
    SetMax(BucketSizes(partitionByPattern(guess, secrets)))

\* 1000 * log2(k), rounded, for k = 1..100
Log2Table ==
    <<0, 1000, 1585, 2000, 2322, 2585, 2807, 3000, 3170, 3322,
      3459, 3585, 3700, 3807, 3907, 4000, 4087, 4170, 4248, 4322,
      4392, 4459, 4524, 4585, 4644, 4700, 4755, 4807, 4858, 4907,
      4954, 5000, 5044, 5087, 5129, 5170, 5209, 5248, 5285, 5322,
      5358, 5392, 5426, 5459, 5492, 5524, 5555, 5585, 5615, 5644,
      5672, 5700, 5728, 5755, 5781, 5807, 5833, 5858, 5883, 5907,
      5931, 5954, 5977, 6000, 6022, 6044, 6066, 6087, 6109, 6129,
      6150, 6170, 6190, 6209, 6229, 6248, 6267, 6285, 6304, 6322,
      6340, 6358, 6375, 6392, 6409, 6426, 6443, 6459, 6476, 6492,
      6508, 6524, 6539, 6555, 6570, 6585, 6600, 6615, 6629, 6644>>

\* an entropy whose terms weigh a bucket by its size, not by its share of the secrets
entropyOfCounts(guess, secrets) ==
    IF Len(secrets) = 0 THEN 0
    ELSE LET n == Len(secrets)
             sizes == BucketSizes(partitionByPattern(guess, secrets))
         IN SetSum({<<b[1], b[2] * (Log2Table[n] - Log2Table[b[2]])>> : b \in sizes})

\* entropy in thousandths of a bit: -sum p*log2(p) with p = |bucket| / |secrets|
entropyOf(guess, secrets) ==
    IF Len(secrets) = 0 THEN 0
    ELSE LET n == Len(secrets)
             sizes == BucketSizes(partitionByPattern(guess, secrets))
             terms == {<<b[1], b[2] * (Log2Table[n] - Log2Table[b[2]])>> : b \in sizes}
         IN SetSum(terms) \div n

(***************************************************************************)
(* Construction: the frequency tables.                                     *)
(***************************************************************************)
\* Array.prototype.join(""), the list taken by halves
RECURSIVE Join(_)
Join(words) ==
    IF words = << >> THEN << >>
    ELSE IF Len(words) = 1 THEN words[1]
    ELSE Join(SubSeq(words, 1, Len(words) \div 2))
         \o Join(SubSeq(words, Len(words) \div 2 + 1, Len(words)))

commonLetters == <<"E","A","R","I","O","T","N","S","L","C">>

IndexOf(s, x) == CHOOSE i \in 1..Len(s) : s[i] = x /\ \A j \in 1..(i - 1) : s[j] # x

\* calculateLetterFrequencies: counts over all starting words plus the bonus 10 - index
calculateLetterFrequencies(words) ==
    [ch \in Letters |->
        LET n == Count(Join(words), ch)
        IN IF n > 0 /\ Includes(commonLetters, ch)
           THEN n + 10 - (IndexOf(commonLetters, ch) - 1)
           ELSE n]

\* the keys of one position's frequency record, in insertion order
RECURSIVE InsertionOrder(_, _)
InsertionOrder(chars, seen) ==
    IF chars = << >> THEN << >>
    ELSE IF Head(chars) \in seen THEN InsertionOrder(Tail(chars), seen)
    ELSE <<Head(chars)>> \o InsertionOrder(Tail(chars), seen \cup {Head(chars)})

\* initPositionFrequencies: per position the letters seen there, in insertion order,
\* each with its count
initPositionFrequencies(words) ==
    [i \in Positions |->
        LET column == [k \in 1..Len(words) |-> words[k][i]]
            keys == InsertionOrder(column, {})
        IN [k \in 1..Len(keys) |-> [char |-> keys[k], freq |-> Count(column, keys[k])]]]

\* this.positionFrequencies.get(i)?.[char] || 0
PositionScore(i, ch) ==
    IF i \in Positions /\ \E k \in 1..Len(positionFrequencies[i]) :
                             positionFrequencies[i][k].char = ch
    THEN LET k == CHOOSE k \in 1..Len(positionFrequencies[i]) :
                      positionFrequencies[i][k].char = ch
         IN positionFrequencies[i][k].freq
    ELSE 0

(***************************************************************************)
(* Stable sorting, as Array.prototype.sort with (a, b) => b.score - a.score*)
(***************************************************************************)
\* the place of items[k] after the sort: one more than the number of items that
\* come before it (a higher score, or the same score and an earlier place)
RankDesc(items, k) ==
    1 + Cardinality({j \in 1..Len(items) :
                        \/ items[j].score > items[k].score
                        \/ (items[j].score = items[k].score /\ j < k)})

\* a sort that leaves the list as it is
SortDescKeepsOrder(items) == items

\* sorts records by their score, highest first, equal scores in their given order
SortDesc(items) ==
    LET list == items \o << >>
        rank == [k \in 1..Len(list) |-> RankDesc(list, k)] \o << >>
    IN [r \in 1..Len(list) |-> list[CHOOSE k \in 1..Len(list) : rank[k] = r]] \o << >>

WordsOf(items) == [k \in 1..Len(items) |-> items[k].word] \o << >>

(***************************************************************************)
(* Feedback interpreter: analyzeResults.                                   *)
(***************************************************************************)
\* Map.prototype.set
MapSet(f, k, v) == (k :> v) @@ f

EmptyAnalysis ==
    [correct |-> {}, present |-> {}, absent |-> {},
     positions |-> << >>, letterCounts |-> << >>]

\* the number of correct or present occurrences of ch in the guess
KnownCount(guess, results, ch) ==
    Cardinality({i \in 1..Len(results) :
                    guess[i] = ch /\ results[i] \in {"correct", "present"}})

\* first pass of analyzeResults, positions index..Len(results)
RECURSIVE FirstPass(_, _, _, _)
FirstPass(guess, results, index, a) ==
    IF index > Len(results) THEN a
    ELSE LET char == guess[index]
             next ==
               CASE results[index] = "correct" ->
                      [a EXCEPT !.correct = @ \cup {char},
                                !.positions = MapSet(@, index, char)]
                 [] results[index] = "present" ->
                      [a EXCEPT !.present = @ \cup {char},
                                !.letterCounts =
                                    IF char \in DOMAIN @ THEN @
                                    ELSE MapSet(@, char, [min |-> 1, max |-> Null])]
                 [] results[index] = "absent" ->
                      IF char \notin a.correct /\ char \notin a.present
                      THEN [a EXCEPT !.absent = @ \cup {char}]
                      ELSE [a EXCEPT !.letterCounts =
                                MapSet(@, char,
                                       [min |-> KnownCount(guess, results, char),
                                        max |-> KnownCount(guess, results, char)])]
                 [] OTHER -> a
         IN FirstPass(guess, results, index + 1, next)

\* charResults[char] of the second pass
CharResults(guess, results, ch) ==
    [correct |-> {i \in 1..Len(guess) : guess[i] = ch /\ results[i] = "correct"},
     present |-> {i \in 1..Len(guess) : guess[i] = ch /\ results[i] = "present"},
     absent  |-> {i \in 1..Len(guess) : guess[i] = ch /\ results[i] = "absent"}]

\* second pass of analyzeResults over the letters chars of the guess
RECURSIVE SecondPass(_, _, _, _)
SecondPass(guess, results, chars, counts) ==
    IF chars = << >> THEN counts
    ELSE LET char == Head(chars)
             info == CharResults(guess, results, char)
             c1 == IF info.correct # {} \/ info.present # {}
                   THEN MapSet(counts, char,
                               [min |-> Cardinality(info.correct) + Cardinality(info.present),
                                max |-> Null])
                   ELSE counts
             c2 == IF info.absent # {} /\ info.correct = {} /\ info.present = {}
                   THEN MapSet(c1, char, [min |-> 0, max |-> 0])
                   ELSE c1
         IN SecondPass(guess, results, Tail(chars), c2)

analyzeResults(guess, results) ==
    LET a == FirstPass(guess, results, 1, EmptyAnalysis)
    IN [a EXCEPT !.letterCounts =
            SecondPass(guess, results, InsertionOrder(guess, {}), @)]

(***************************************************************************)
(* Constraint model: normalizeConstraints.                                 *)
(***************************************************************************)
NoLetter == ""

\* the number of green positions holding ch
GreenCount(a, ch) == Cardinality({p \in DOMAIN a.positions : a.positions[p] = ch})

\* minCounts after the greens and the present letters have been processed
MinCounts(a) ==
    [ch \in Letters |->
        IF ch \in a.present
        THEN Max(GreenCount(a, ch) + 1, GreenCount(a, ch))
        ELSE GreenCount(a, ch)]

\* maxCounts[char] = minCounts[char] for an absent letter that is known to exist
MaxCounts(a) ==
    LET minCounts == MinCounts(a)
    IN [ch \in Letters |->
           IF ch \in a.absent /\ minCounts[ch] # 0 THEN minCounts[ch] ELSE Null]

normalizeConstraints(a) ==
    LET greens == [i \in Positions |->
                      IF i \in DOMAIN a.positions THEN a.positions[i] ELSE NoLetter]
        minCounts == MinCounts(a)
        maxCounts == MaxCounts(a)
        bannedPos == [ch \in Letters |->
                         IF ch \in a.present
                         THEN {i \in Positions : greens[i] # ch}
                         ELSE {}]
        forbidden == {ch \in a.absent : minCounts[ch] = 0}
        tested == {a.positions[p] : p \in DOMAIN a.positions} \cup a.present \cup a.absent
    IN [error |-> \E ch \in Letters : maxCounts[ch] # Null /\ minCounts[ch] > maxCounts[ch],
        greens |-> greens,
        minCounts |-> minCounts,
        maxCounts |-> maxCounts,
        bannedPos |-> bannedPos,
        forbidden |-> forbidden,
        testedLetters |-> tested]

(***************************************************************************)
(* Dictionary service: LRUCache and FreeDictionaryService.                 *)
(* The cache is the Map of LRUCache in insertion order, oldest entry first.*)
(* Entries live for the configured ttl of seven days, which no run of the  *)
(* model outlasts, so no entry of the model expires.                       *)
(***************************************************************************)
cacheHas(cache, key) == \E i \in 1..Len(cache) : cache[i].key = key

cacheWithout(cache, key) == SelectSeq(cache, LAMBDA e : e.key # key)

\* LRUCache.get: [found, value, cache]; a hit moves the entry to the young end
cacheGet(cache, key) ==
    IF ~cacheHas(cache, key)
    THEN [found |-> FALSE, value |-> FALSE, cache |-> cache]
    ELSE LET item == cache[CHOOSE i \in 1..Len(cache) : cache[i].key = key]
         IN [found |-> TRUE, value |-> item.value,
             cache |-> Append(cacheWithout(cache, key), item)]

\* LRUCache.set
cacheSet(cache, key, value) ==
    Append(IF cacheHas(cache, key) THEN cacheWithout(cache, key)
           ELSE IF Len(cache) >= cacheMaxSize THEN Tail(cache)
           ELSE cache,
           [key |-> key, value |-> value])

\* A request to a dictionary API ends with a status ("200", "204" for any other
\* success, "404", "429"), with a "network error", or with a "timeout".
\* axios.get rejects unless the status is 2xx; fetchWithTimeout aborts a slow request
Throws(kind) == kind \in {"404", "429", "network error", "timeout"}

\* how the two APIs answer for a word, and when the primary's answer arrives
Reply(word) ==
    IF word \in DOMAIN dictionary.special THEN dictionary.special[word]
    ELSE LET kind == IF dictionary.all \/ word \in dictionary.words
                     THEN "200" ELSE "204"
         IN [primary |-> kind, fallback |-> kind, rank |-> 0]

\* the request for a word sent to one of the APIs, with its outcome
Request(word, api) == [word |-> word, api |-> api, outcome |-> Reply(word)[api]]

\* isValidWord: [value, cache, requests], requests being the requests it sent
isValidWord(word, cache) ==
    LET cached == cacheGet(cache, word)
        r == Reply(word)
        first == {Request(word, "primary")}
        both == {Request(word, "primary"), Request(word, "fallback")}
    IN IF cached.found
       THEN [value |-> cached.value, cache |-> cached.cache, requests |-> {}]
       ELSE IF ~Throws(r.primary)
       THEN [value |-> r.primary = "200",
             cache |-> cacheSet(cache, word, r.primary = "200"), requests |-> first]
       ELSE IF r.primary = "429"
       THEN IF ~Throws(r.fallback)
            THEN [value |-> r.fallback = "200",
                  cache |-> cacheSet(cache, word, r.fallback = "200"), requests |-> both]
            ELSE [value |-> TRUE, cache |-> cache, requests |-> both]
       ELSE IF r.primary = "404"
       THEN [value |-> FALSE, cache |-> cacheSet(cache, word, FALSE), requests |-> first]
       ELSE [value |-> TRUE, cache |-> cache, requests |-> first]

\* validateWords, the cache lookups of one batch: st = [valid, uncached, cache]
RECURSIVE LookupBatch(_, _)
LookupBatch(batch, st) ==
    IF batch = << >> THEN st
    ELSE Only({LookupBatch(Tail(batch), next) :
                  next \in {IF cached.found
                            THEN [valid |-> IF cached.value
                                            THEN Append(st.valid, Head(batch))
                                            ELSE st.valid,
                                  uncached |-> st.uncached,
                                  cache |-> cached.cache]
                            ELSE [valid |-> st.valid,
                                  uncached |-> Append(st.uncached, Head(batch)),
                                  cache |-> st.cache] :
                                cached \in {cacheGet(st.cache, Head(batch))}}})

\* the requests of a batch that the primary API answers with 429
Limited(uncached) ==
    {i \in 1..Len(uncached) : Reply(uncached[i]).primary = "429"}

\* the request of a batch whose 429 arrives first: its handler finds useFallback
\* still false, sets it and retries on the fallback API
FirstLimited(uncached) ==
    CHOOSE i \in Limited(uncached) :
        \A j \in Limited(uncached) :
            \/ Reply(uncached[i]).rank < Reply(uncached[j]).rank
            \/ (Reply(uncached[i]).rank = Reply(uncached[j]).rank /\ i <= j)

\* a promise whose catch block counts the word of a failed request as invalid
ValidationRejects(uncached, i, useFallback) ==
    LET r == Reply(uncached[i])
    IN IF useFallback
       THEN (IF r.fallback = "200" THEN "valid" ELSE "invalid")
       ELSE IF ~Throws(r.primary)
       THEN (IF r.primary = "200" THEN "valid" ELSE "invalid")
       ELSE IF r.primary = "429" /\ i = FirstLimited(uncached)
       THEN (IF Throws(r.fallback) THEN "throw"
             ELSE IF r.fallback = "200" THEN "valid" ELSE "invalid")
       ELSE "invalid"

\* validations[i] of a batch started with the given useFallback:
\* "valid", "invalid", or "throw" when the request's promise rejects
Validation(uncached, i, useFallback) ==
    LET r == Reply(uncached[i])
    IN IF useFallback
       THEN (IF Throws(r.fallback) \/ r.fallback = "200" THEN "valid" ELSE "invalid")
       ELSE IF ~Throws(r.primary)
       THEN (IF r.primary = "200" THEN "valid" ELSE "invalid")
       ELSE IF r.primary = "429" /\ i = FirstLimited(uncached)
       THEN (IF Throws(r.fallback) THEN "throw"
             ELSE IF r.fallback = "200" THEN "valid" ELSE "invalid")
       ELSE "valid"

\* the requests the promise of one uncached word sends
RequestsOf(uncached, i, useFallback) ==
    IF useFallback THEN {Request(uncached[i], "fallback")}
    ELSE {Request(uncached[i], "primary")}
         \cup (IF Reply(uncached[i]).primary = "429" /\ i = FirstLimited(uncached)
               THEN {Request(uncached[i], "fallback")} ELSE {})

\* cache.set for every uncached word of the batch, in batch order
RECURSIVE StoreBatch(_, _, _, _)
StoreBatch(uncached, verdicts, i, cache) ==
    IF i > Len(uncached) THEN cache
    ELSE Only({StoreBatch(uncached, verdicts, i + 1, next) :
                  next \in {cacheSet(cache, uncached[i], verdicts[i] = "valid")}})

\* the words of a batch whose verdict is "valid", in batch order
Passed(uncached, verdicts) ==
    LET passed == {i \in 1..Len(uncached) : verdicts[i] = "valid"}
    IN [k \in 1..Cardinality(passed) |->
           uncached[CHOOSE i \in passed : Cardinality({j \in passed : j <= i}) = k]]
       \o << >>

\* one batch of validateWords: st = [valid, cache, useFallback, requests]
ValidateBatch(batch, st) ==
    Only({
    Only({
    Only({
        [valid |-> looked.valid \o Passed(looked.uncached, settled),
         cache |-> StoreBatch(looked.uncached, settled, 1, looked.cache),
         useFallback |-> st.useFallback \/ Limited(looked.uncached) # {},
         requests |-> st.requests
                      \cup UNION {RequestsOf(looked.uncached, i, st.useFallback) :
                                     i \in 1..Len(looked.uncached)}] :
        \* the outer catch: every uncached word of the batch counts as valid
        settled \in {IF \E i \in 1..Len(verdicts) : verdicts[i] = "throw"
                     THEN [i \in 1..Len(verdicts) |-> "valid"] \o << >>
                     ELSE verdicts}}) :
        verdicts \in {[i \in 1..Len(looked.uncached) |->
                          Validation(looked.uncached, i, st.useFallback)] \o << >>}}) :
        looked \in {LookupBatch(batch, [valid |-> st.valid, uncached |-> << >>,
                                        cache |-> st.cache])}})

\* n batches of validateWords from index i on, one after the other; they are taken
\* by halves, which keeps the evaluation shallow
RECURSIVE ValidateFrom(_, _, _, _)
ValidateFrom(words, i, n, st) ==
    IF n = 0 THEN st
    ELSE IF n = 1
    THEN ValidateBatch(SubSeq(words, i, Min(i + batchSize - 1, Len(words))), st)
    ELSE Only({ValidateFrom(words, i + batchSize * (n \div 2), n - n \div 2, next) :
                  next \in {ValidateFrom(words, i, n \div 2, st)}})

\* validateWords: [words, cache, requests], requests being the requests it sent
validateWords(words, cache) ==
    Only({[words |-> st.valid, cache |-> st.cache, requests |-> st.requests] :
             st \in {ValidateFrom(words \o << >>, 1,
                                  (Len(words) + batchSize - 1) \div batchSize,
                                  [valid |-> << >>, cache |-> cache,
                                   useFallback |-> FALSE, requests |-> {}])}})

(***************************************************************************)
(* Candidate filter: filterWords and generateWordCombinations.             *)
(***************************************************************************)
consonants ==
    <<"B","C","D","F","G","H","J","K","L","M","N","P","Q","R","S","T","V","W","X","Y","Z">>

patterns ==
    << <<"C","V","C","V","C">>, <<"C","C","V","C","V">>, <<"C","V","C","C","V">>,
       <<"C","V","C","C","C">>, <<"C","C","V","C","C">> >>

\* the filter callback of filterWords
PassesConstraints(word, c) ==
    /\ \A ch \in c.forbidden : ~Includes(word, ch)
    /\ \A i \in 1..Len(word) :
          i \in Positions /\ (c.greens[i] = NoLetter \/ word[i] = c.greens[i])
    /\ \A ch \in Letters : c.minCounts[ch] > 0 => Count(word, ch) >= c.minCounts[ch]
    /\ \A ch \in Letters : c.maxCounts[ch] # Null => Count(word, ch) <= c.maxCounts[ch]
    /\ \A ch \in Letters : \A pos \in c.bannedPos[ch] :
          ~(pos <= Len(word) /\ word[pos] = ch)

FilterByConstraints(words, c) == SelectSeq(words, LAMBDA w : PassesConstraints(w, c))

\* isValidCandidate of generateWordCombinations
isValidCandidate(word, a) ==
    /\ \A p \in DOMAIN a.positions : p <= Len(word) /\ word[p] = a.positions[p]
    /\ \A ch \in a.present : Includes(word, ch)
    /\ \A ch \in a.absent : ~Includes(word, ch)
    /\ \E i \in 1..Len(word) : Includes(vowels, word[i])

\* letterPool.sort((a, b) => freq[b] - freq[a])[0] over the pool without the absent letters
BestLetter(pool, a) ==
    LET kept == SelectSeq(pool, LAMBDA ch : ch \notin a.absent)
        best == Max0({letterFrequencies[kept[k]] : k \in 1..Len(kept)})
        first == CHOOSE k \in 1..Len(kept) :
                     /\ letterFrequencies[kept[k]] = best
                     /\ \A j \in 1..(k - 1) : letterFrequencies[kept[j]] # best
    IN IF kept = << >> THEN << >> ELSE <<kept[first]>>

\* the word built for one pattern, positions i..wordLength
RECURSIVE BuildWord(_, _, _, _)
BuildWord(wordPattern, pattern, a, i) ==
    IF i > wordLength THEN << >>
    ELSE (IF pattern[i] # NoLetter THEN <<pattern[i]>>
          ELSE BestLetter(IF wordPattern[i] = "V" THEN vowels ELSE consonants, a))
         \o BuildWord(wordPattern, pattern, a, i + 1)

RECURSIVE PossibleWords(_, _, _)
PossibleWords(k, pattern, a) ==
    IF k > Len(patterns) THEN << >>
    ELSE LET word == BuildWord(patterns[k], pattern, a, 1)
         IN (IF Len(word) = wordLength /\ isValidCandidate(word, a)
             THEN <<word>> ELSE << >>)
            \o PossibleWords(k + 1, pattern, a)

\* generateWordCombinations: [words, cache]
generateWordCombinations(pattern, a, cache) ==
    Only({validateWords(possibleWords, cache) :
             possibleWords \in {PossibleWords(1, pattern, a)}})

\* filterWords on a service whose cache is as given: [status, words, cache]
filterWords(a, wordList, cache) ==
    LET pattern == [i \in Positions |->
                       IF i \in DOMAIN a.positions THEN a.positions[i] ELSE NoLetter]
    IN Only({
        IF constraints.error
        THEN [status |-> "throw", words |-> << >>, cache |-> cache]
        ELSE Only({
            Only({
                IF Len(validated.words) = 0
                THEN Only({[status |-> "ok", words |-> made.words, cache |-> made.cache] :
                              made \in {generateWordCombinations(pattern, a,
                                                                 validated.cache)}})
                ELSE [status |-> "ok", words |-> validated.words,
                      cache |-> validated.cache] :
                validated \in {validateWords(filteredWords, cache)}}) :
            filteredWords \in {FilterByConstraints(wordList, constraints)}}) :
        constraints \in {normalizeConstraints(a)}})

(***************************************************************************)
(* Candidate scorer: scoreWord.                                            *)
(***************************************************************************)
\* the part of scoreWord that needs neither analysis nor candidates (lines 233-263)
BaseScore(word) ==
    SetSum({<<i,
              PositionScore(i, word[i]) * 2 * 1000
              + letterFrequencies[word[i]] * 1000
              + (IF i = 1 /\ Includes(commonStart, word[i]) THEN startBonus * 1000 ELSE 0)
              + (IF i = Len(word) /\ Includes(commonEnd, word[i])
                 THEN commonEndBonus * 1000 ELSE 0)
              + (IF Includes(vowels, word[i])
                 THEN vowelBonus * (IF i = 2 \/ i = 3 THEN 1500 ELSE 1000) ELSE 0)>> :
            i \in 1..Len(word)})

\* the part of scoreWord under `if (analysis)` (lines 266-296)
ConstraintScore(word, a) ==
    LET c == normalizeConstraints(a)
        uniqueLetters == Range(word)
    IN SetSum({<<ch,
                 (IF ch \notin c.testedLetters THEN 8000 ELSE 0)
                 + (IF Count(word, ch) > 1
                    THEN IF c.minCounts[ch] >= Count(word, ch) THEN 2000
                         ELSE -(5000 * (Count(word, ch)
                                        - (IF c.minCounts[ch] = 0 THEN 1 ELSE c.minCounts[ch])))
                    ELSE 0)
                 + (IF c.maxCounts[ch] # Null /\ Count(word, ch) > c.maxCounts[ch]
                    THEN -(10000 * (Count(word, ch) - c.maxCounts[ch])) ELSE 0)>> :
               ch \in uniqueLetters})

\* the part of scoreWord under `if (candidates?.length)` (lines 299-308)
CandidateScore(word, candidates) ==
    IF Len(candidates) = 0 THEN 0
    ELSE IF Len(candidates) <= 20
         THEN (IF Includes(candidates, word) THEN 15000 ELSE 0)
         ELSE entropyOf(word, candidates) * 10

\* scoreWord(word)
scoreWord1(word) == BaseScore(word)

\* scoreWord(word, analysis, candidates)
scoreWord(word, a, candidates) ==
    BaseScore(word) + ConstraintScore(word, a) + CandidateScore(word, candidates)

\* a getBestStartingWord that reads the entry behind the last one, which is undefined
getBestStartingWordPastEnd(sw) ==
    [status |-> "undefined", word |-> << >>, startingWords |-> sw]

\* getBestStartingWord: sorts this.startingWords in place and returns its first word
getBestStartingWord(sw) ==
    LET sorted == WordsOf(SortDesc([k \in 1..Len(sw) |->
                                      [word |-> sw[k], score |-> scoreWord1(sw[k])]]))
    IN IF sorted = << >>
       THEN [status |-> "undefined", word |-> << >>, startingWords |-> sorted]
       ELSE [status |-> "ok", word |-> sorted[1], startingWords |-> sorted]

(***************************************************************************)
(* Candidate synthesizer: enumerateCandidates (beam search).               *)
(***************************************************************************)
scorePartial(partial) ==
    SetSum({<<i, PositionScore(i, partial[i]) * 2 + letterFrequencies[partial[i]]>> :
            i \in 1..Len(partial)})

isPossiblePrefix(partial) ==
    /\ Len(partial) >= 3 => \E i \in 1..Len(partial) : Includes(vowels, partial[i])
    /\ ~(/\ Len(partial) >= 3
         /\ \A i \in (Len(partial) - 2)..Len(partial) : ~Includes(vowels, partial[i])
         /\ Len(partial) < wordLength)

\* the extensions of one partial word by the letters seen at position pos
ExtendPartial(partial, entries) ==
    Only({[k \in 1..Len(kept) |->
              [word |-> Append(partial, kept[k].char),
               score |-> scorePartial(Append(partial, kept[k].char))]] \o << >> :
             kept \in {SelectSeq(entries,
                                 LAMBDA e : isPossiblePrefix(Append(partial, e.char)))}})

\* the extensions of every partial word of the beam, in the order of the beam; the
\* beam is taken by halves, which keeps the evaluation shallow
RECURSIVE ExtendBeam(_, _)
ExtendBeam(beam, entries) ==
    IF beam = << >> THEN << >>
    ELSE IF Len(beam) = 1 THEN ExtendPartial(beam[1].word, entries)
    ELSE ExtendBeam(SubSeq(beam, 1, Len(beam) \div 2), entries)
         \o ExtendBeam(SubSeq(beam, Len(beam) \div 2 + 1, Len(beam)), entries)

\* a round that keeps one partial word more than beamWidth
BeamStepWide(beam, pos) ==
    Slice(SortDesc(ExtendBeam(beam, positionFrequencies[pos])), beamWidth + 1)

\* one round of the loop over the positions: the beam after position pos
BeamStep(beam, pos) ==
    Only({Only({Slice(sorted, beamWidth) : sorted \in {SortDesc(nextBeam)}}) :
             nextBeam \in {ExtendBeam(beam, positionFrequencies[pos])}})

\* the beam after positions pos..wordLength
RECURSIVE BeamFrom(_, _)
BeamFrom(beam, pos) ==
    IF pos > wordLength THEN beam
    ELSE Only({BeamFrom(next, pos + 1) : next \in {BeamStep(beam, pos)}})

\* enumerateCandidates: [words, cache]
enumerateCandidates(limit, cache) ==
    Only({
    Only({[words |-> Slice(validated.words, limit), cache |-> validated.cache] :
             validated \in {validateWords(beam, cache)}}) :
        beam \in {WordsOf(BeamFrom(<<[word |-> << >>, score |-> 0]>>, 1))}})

(***************************************************************************)
(* Guess selector: generateNextGuess.                                      *)
(***************************************************************************)
\* matchesAnalysis of the empty-pool branch
matchesAnalysis(word, a) ==
    /\ \A p \in a.present : Includes(word, p)
    /\ \A x \in a.absent :
          ~(x \notin a.present /\ x \notin a.correct /\ Includes(word, x))
    /\ \A pos \in DOMAIN a.positions : pos <= Len(word) /\ word[pos] = a.positions[pos]
    /\ \A ch \in DOMAIN a.letterCounts :
          /\ Count(word, ch) >= a.letterCounts[ch].min
          /\ ~(a.letterCounts[ch].max # Null /\ Count(word, ch) > a.letterCounts[ch].max)

\* the predicate of looseFallback
matchesLoosely(word, a) ==
    /\ \A p \in a.present : Includes(word, p)
    /\ \A x \in a.absent : x \in a.present \/ x \in a.correct \/ ~Includes(word, x)

\* a filter that lets the previous guesses through
NotPreviousKeepsAll(words, previousGuesses) == words

\* words.filter((word) => !previousGuesses.includes(word))
NotPrevious(words, previousGuesses) ==
    SelectSeq(words, LAMBDA w : ~Includes(previousGuesses, w))

\* the words in the order given, each with scoreWord(word, analysis, pool), sorted
RankByScore(words, a, pool) ==
    SortDesc([k \in 1..Len(words) |->
                 [word |-> words[k], score |-> scoreWord(words[k], a, pool)]])

\* the words ranked by weight * entropy + (10 - weight) * score (tenths as weights)
RankByEntropy(words, a, pool, weight) ==
    SortDesc([k \in 1..Len(words) |->
                 [word |-> words[k],
                  score |-> entropyOf(words[k], pool) * weight
                            + scoreWord(words[k], a, pool) * (10 - weight)]])

\* the empty-pool branch (lines 568-640)
EmptyPoolGuess(a, previousGuesses, sw, cache) ==
    Only({
    Only({
        (IF Len(validBeam) > 0
         THEN Only({[status |-> "ok", word |-> scored[1].word, startingWords |-> sw,
                     branch |-> "beam", ranked |-> scored, rankPool |-> validBeam] :
                       scored \in {RankByScore(validBeam, a, validBeam)}})
         ELSE IF Len(looseFallback) > 0
              THEN Only({[status |-> "ok", word |-> scored[1].word, startingWords |-> sw,
                          branch |-> "loose", ranked |-> scored,
                          rankPool |-> looseFallback] :
                            scored \in {RankByScore(looseFallback, a, looseFallback)}})
              ELSE getBestStartingWord(sw) @@ [branch |-> "start"])
        @@ [cache |-> synthesized.cache, remainingWords |-> << >>, synth |-> <<300>>,
            availableWords |-> << >>, ranked |-> << >>, rankPool |-> << >>] :
        validBeam \in {SelectSeq(NotPrevious(synthesized.words, previousGuesses),
                                 LAMBDA w : matchesAnalysis(w, a))},
        looseFallback \in {SelectSeq(NotPrevious(synthesized.words, previousGuesses),
                                     LAMBDA w : matchesLoosely(w, a))}}) :
        synthesized \in {enumerateCandidates(300, cache)}})

\* the entropy branch (lines 710-745)
EntropyGuess(a, previousGuesses, remainingWords, availableWords, sw) ==
    LET candidateLimit == Min(IF Len(remainingWords) > 50 THEN 200 ELSE 100,
                              Len(availableWords))
        topCandidates == Slice(availableWords, candidateLimit)
        entropyWeight == IF Len(remainingWords) > 50 THEN 8 ELSE 6
    IN Only({
        IF Len(eligible) = 0
        THEN getBestStartingWord(sw) @@ [branch |-> "entropy-start"]
        ELSE Only({[status |-> "ok", word |-> scoredWords[1].word, startingWords |-> sw,
                    branch |-> "entropy", ranked |-> scoredWords,
                    rankPool |-> remainingWords] :
                      scoredWords \in {RankByEntropy(eligible, a, remainingWords,
                                                     entropyWeight)}}) :
        eligible \in {NotPrevious(topCandidates, previousGuesses)}})

\* the minimax branch (lines 662-708); falls through to the entropy branch
MinimaxGuess(a, previousGuesses, remainingWords, availableWords, sw) ==
    Only({
    Only({
    Only({
        IF Len(sortedByMinimax) > 0
        THEN IF Len(tiedForBest) > 1
             THEN [status |-> "ok",
                   word |-> RankByEntropy(tiedForBest, a, remainingWords, 7)[1].word,
                   startingWords |-> sw, branch |-> "minimax-tie"]
             ELSE [status |-> "ok", word |-> sortedByMinimax[1].word,
                   startingWords |-> sw, branch |-> "minimax"]
        ELSE EntropyGuess(a, previousGuesses, remainingWords, availableWords, sw) :
        tiedForBest \in {WordsOf(SelectSeq(sortedByMinimax,
                             LAMBDA e : e.score = sortedByMinimax[1].score))}}) :
        sortedByMinimax \in
            {SortDesc([k \in 1..Len(words) |->
                          [word |-> words[k],
                           score |-> -worstCaseBucket(words[k], remainingWords)]])}}) :
        words \in {InsertionOrder(NotPrevious(availableWords, previousGuesses), {})}})

\* the branches for a pool that is not empty (lines 642-745)
PoolGuess(a, previousGuesses, remainingWords, sw, cache) ==
    Only({
    Only({
        (IF Len(remainingWords) <= 2
         THEN IF Len(nonPreviousGuesses) > 0
              THEN [status |-> "ok", word |-> nonPreviousGuesses[1],
                    startingWords |-> sw, branch |-> "endgame"]
              ELSE EntropyGuess(a, previousGuesses, remainingWords, availableWords, sw)
         ELSE IF Len(remainingWords) <= 20
              THEN MinimaxGuess(a, previousGuesses, remainingWords, availableWords, sw)
              ELSE EntropyGuess(a, previousGuesses, remainingWords, availableWords, sw))
        @@ [cache |-> allAvailableWords.cache, remainingWords |-> remainingWords,
            synth |-> <<500>>, availableWords |-> availableWords,
            ranked |-> << >>, rankPool |-> << >>] :
        availableWords \in {NotPrevious(allAvailableWords.words, previousGuesses)},
        nonPreviousGuesses \in {NotPrevious(remainingWords, previousGuesses)}}) :
        allAvailableWords \in {enumerateCandidates(500, cache)}})

\* generateNextGuess(analysis, previousGuesses) on a bot whose starting words and
\* dictionary cache are as given: [status, word, startingWords, branch, cache,
\* remainingWords, synth, availableWords, ranked, rankPool], where remainingWords is
\* the filtered pool, synth lists the limits of the enumerateCandidates calls made,
\* availableWords is the corpus of the branches for a pool that is not empty, and
\* ranked is the sorted array whose first word is returned, scored against rankPool
generateNextGuess(a, previousGuesses, sw, cache) ==
    Only({
        IF filtered.status = "throw"
        THEN [status |-> "throw", word |-> << >>, startingWords |-> sw,
              branch |-> "throw", cache |-> filtered.cache, remainingWords |-> << >>,
              synth |-> << >>, availableWords |-> << >>, ranked |-> << >>,
              rankPool |-> << >>]
        ELSE IF Len(filtered.words) = 0
             THEN EmptyPoolGuess(a, previousGuesses, sw, filtered.cache)
             ELSE PoolGuess(a, previousGuesses, filtered.words, sw, filtered.cache) :
        filtered \in {filterWords(a, sw, cache)}})

(***************************************************************************)
(* The puzzle server and the inputs the model draws from.                  *)
(***************************************************************************)
\* the feedback of the puzzle server: the canonical two-pass rule, as result kinds
ServerFeedback(guess, secretWord) ==
    [i \in 1..Len(guess) |->
        LET mark == computePattern(guess, secretWord)[i]
        IN IF mark = Green THEN "correct"
           ELSE IF mark = Yellow THEN "present" ELSE "absent"] \o << >>

\* a win check that is content with one correct letter
checkWinAny(results) == \E i \in 1..Len(results) : results[i] = "correct"

\* checkWin
checkWin(results) == \A i \in 1..Len(results) : results[i] = "correct"

W_CRATE == <<"C","R","A","T","E">>
W_STATE == <<"S","T","A","T","E">>
W_SLANT == <<"S","L","A","N","T">>
W_EERIE == <<"E","E","R","I","E">>

\* words a bounded dictionary may know, most useful first
EnglishWords == <<W_CRATE, W_STATE, W_STARE, W_CRANE, W_SLATE, W_TRACE, W_SLANT, W_AUDIO>>

\* the secrets the puzzle server may hold
SecretWords == <<W_CRATE, W_STARE, W_AUDIO, W_STATE, W_EERIE, W_SLANT>>

Secrets == {SecretWords[k] : k \in 1..Min(NumSecrets, Len(SecretWords))}

\* APIs that answer 200 for every word, or for the words of a lexicon only
DictionaryBehaviours ==
    {[all |-> TRUE, words |-> {}, special |-> << >>]}
    \cup {[all |-> FALSE, words |-> {EnglishWords[k] : k \in 1..n}, special |-> << >>] :
          n \in 0..Min(NumLexicon, Len(EnglishWords))}

StartingWordLists ==
    {SubSeq(ConfigStartingWords, 1, n) : n \in 0..Min(NumStartingWords, Len(ConfigStartingWords))}

NoCall == [op |-> "none"]
\* new LRUCache(1, 0)
NoCache == [maxSize |-> 1, ttl |-> 0, cache |-> << >>]
NoGame == [guesses |-> << >>, results |-> << >>, success |-> FALSE,
           attempts |-> 0, error |-> ""]
NoGuess == [status |-> "undefined", word |-> << >>]

(***************************************************************************)
(* Construction.                                                           *)
(***************************************************************************)
Init ==
    /\ startingWords \in StartingWordLists
    /\ letterFrequencies = calculateLetterFrequencies(startingWords)
    /\ positionFrequencies = initPositionFrequencies(startingWords)
    /\ gameHistory = << >>
    /\ dictionary \in DictionaryBehaviours
    /\ dictionaryCache = << >>
    /\ pc = "idle"
    /\ secret = << >>
    /\ gameData = NoGame
    /\ currentGuess = NoGuess
    /\ attempt = 0
    /\ analysis = EmptyAnalysis
    /\ call = NoCall
    /\ lru = NoCache
    /\ now = 0
    /\ inflight = {}

botTables == <<letterFrequencies, positionFrequencies, dictionary>>
gameVars == <<secret, gameData, currentGuess, attempt, analysis>>

(***************************************************************************)
(* playGame.                                                               *)
(***************************************************************************)
\* the code after the loop: the record goes to the history and playGame returns
GameOver(data) ==
    /\ gameHistory' = Append(gameHistory, data)
    /\ pc' = "idle"
    /\ gameData' = NoGame
    /\ currentGuess' = NoGuess
    /\ attempt' = 0

\* playGame up to the first makeGuess: the game record and the first guess
StartGame ==
    /\ pc = "idle"
    /\ call = NoCall
    /\ Len(gameHistory) < MaxGames
    /\ \E s \in Secrets : secret' = s
    /\ LET best == getBestStartingWord(startingWords)
       IN /\ startingWords' = best.startingWords
          /\ currentGuess' = [status |-> best.status, word |-> best.word]
    /\ gameData' = NoGame
    /\ attempt' = 1
    /\ analysis' = EmptyAnalysis
    /\ pc' = "playing"
    /\ UNCHANGED <<botTables, dictionaryCache, gameHistory, call>>
    /\ UNCHANGED <<lru, now, inflight>>

\* what the server may answer to a request that carries no guess
UndefinedGuessReplies == {[i \in Positions |-> "absent"]}

\* one round of the loop in which makeGuess returns a result
AttemptReturns ==
    /\ pc = "playing"
    /\ \E result \in (IF currentGuess.status = "ok"
                      THEN {ServerFeedback(currentGuess.word, secret)}
                      ELSE UndefinedGuessReplies) :
       \E data \in {[gameData EXCEPT !.results = Append(@, result),
                                     !.guesses = Append(@, currentGuess.word),
                                     !.attempts = attempt]} :
         IF currentGuess.status # "ok"
         THEN \* displayResults reads guess.length of undefined
              /\ GameOver([data EXCEPT !.error = "TypeError"])
              /\ UNCHANGED <<startingWords, dictionaryCache, analysis>>
         ELSE IF checkWin(result)
         THEN /\ GameOver([data EXCEPT !.success = TRUE])
              /\ UNCHANGED <<startingWords, dictionaryCache, analysis>>
         ELSE \E a \in {analyzeResults(currentGuess.word, result)} :
              \E next \in {generateNextGuess(a, data.guesses, startingWords,
                                             dictionaryCache)} :
                /\ analysis' = a
                /\ dictionaryCache' = next.cache
                /\ IF next.status = "throw"
                   THEN /\ GameOver([data EXCEPT !.error = "Impossible constraints"])
                        /\ UNCHANGED startingWords
                   ELSE /\ startingWords' = next.startingWords
                        /\ IF next.status = "undefined" \/ attempt = maxAttempts
                           THEN \* if (!nextGuess) break, or the loop ends
                                GameOver(data)
                           ELSE /\ gameData' = data
                                /\ currentGuess' = [status |-> next.status,
                                                    word |-> next.word]
                                /\ attempt' = attempt + 1
                                /\ UNCHANGED <<gameHistory, pc>>
    /\ UNCHANGED <<botTables, secret, call>>
    /\ UNCHANGED <<lru, now, inflight>>

\* one round of the loop in which makeGuess throws after its retries
AttemptThrows ==
    /\ pc = "playing"
    /\ GameOver([gameData EXCEPT !.error = "API call failed"])
    /\ UNCHANGED <<startingWords, botTables, dictionaryCache, secret, analysis, call>>
    /\ UNCHANGED <<lru, now, inflight>>

(***************************************************************************)
(* Direct calls of generateNextGuess on a freshly built bot.               *)
(***************************************************************************)
\* the analysis of the test "handles W_ARISE->yellow A,S case correctly"
AnalysisArise ==
    [correct |-> {}, present |-> {"A", "S"}, absent |-> {"R", "I", "E"},
     positions |-> << >>,
     letterCounts |-> [ch \in {"A", "S", "R", "I", "E"} |->
                          IF ch \in {"A", "S"} THEN [min |-> 1, max |-> Null]
                          ELSE [min |-> 0, max |-> 0]]]

\* the analysis of the test "should handle case when no valid words are found"
AnalysisGreenX ==
    [correct |-> {"X"}, present |-> {}, absent |-> {},
     positions |-> [p \in {1} |-> "X"], letterCounts |-> << >>]

ProbeGuesses == {ConfigStartingWords[k] : k \in 1..Min(NumStartingWords, Len(ConfigStartingWords))}

\* the analyses of true feedback, and those the tests build by hand
ProbeAnalyses ==
    {analyzeResults(g, ServerFeedback(g, s)) : g \in ProbeGuesses, s \in Secrets}
    \cup {EmptyAnalysis, AnalysisArise, AnalysisGreenX}

PreviousGuessLists ==
    {SubSeq(ConfigStartingWords, 1, n) : n \in 0..2} \cup {<<W_ARISE>>}

CallGenerateNextGuess ==
    /\ pc = "idle"
    /\ call = NoCall
    /\ gameHistory = << >>
    /\ \E a \in ProbeAnalyses, previousGuesses \in PreviousGuessLists :
       \E r \in {generateNextGuess(a, previousGuesses, startingWords, dictionaryCache)} :
         /\ call' = [op |-> "generateNextGuess", analysis |-> a,
                     previousGuesses |-> previousGuesses,
                     status |-> r.status, word |-> r.word, branch |-> r.branch,
                     remainingWords |-> r.remainingWords, synth |-> r.synth,
                     availableWords |-> r.availableWords,
                     ranked |-> r.ranked, rankPool |-> r.rankPool,
                     before |-> startingWords]
         /\ startingWords' = r.startingWords
         /\ dictionaryCache' = r.cache
    /\ pc' = "called"
    /\ UNCHANGED <<botTables, gameHistory, gameVars>>
    /\ UNCHANGED <<lru, now, inflight>>

Next == StartGame \/ AttemptReturns \/ AttemptThrows \/ CallGenerateNextGuess

Spec == Init /\ [][Next]_vars

(***************************************************************************)
(* Direct calls of filterWords.                                            *)
(***************************************************************************)
\* the secrets as a word list, in the order of SecretWords
SecretList == SubSeq(SecretWords, 1, Min(NumSecrets, Len(SecretWords)))

\* the word list of the filter tests
TestWords == <<W_STARE, W_CRANE, W_SLATE, W_TRACE, W_AUDIO>>

\* the pools filterWords is called with: none, the default one, one with every secret,
\* and those of the tests
FilterPools == {<< >>, startingWords, SecretList, TestWords, SubSeq(TestWords, 1, 4)}

\* the guesses whose feedback is analysed, two of them with a repeated letter
FeedbackGuesses == ProbeGuesses \cup {W_STATE, W_EERIE}

\* letterCounts as no feedback produces it: more required than allowed
AnalysisContradiction ==
    [correct |-> {}, present |-> {"A"}, absent |-> {}, positions |-> << >>,
     letterCounts |-> [ch \in {"A"} |-> [min |-> 2, max |-> 1]]]

\* A is absent
AnalysisAbsentA ==
    [correct |-> {}, present |-> {}, absent |-> {"A"}, positions |-> << >>,
     letterCounts |-> [ch \in {"A"} |-> [min |-> 0, max |-> 0]]]

\* A is absent, and A is correct at the first position
AnalysisAbsentGreenA ==
    [correct |-> {"A"}, present |-> {}, absent |-> {"A"},
     positions |-> [p \in {1} |-> "A"],
     letterCounts |-> [ch \in {"A"} |-> [min |-> 1, max |-> Null]]]

\* T and E are present, nothing else is known
AnalysisPresentTE ==
    [correct |-> {}, present |-> {"T", "E"}, absent |-> {}, positions |-> << >>,
     letterCounts |-> << >>]

\* S is green at index 0 and R at index 3, nothing else is known
AnalysisGreenSR ==
    [correct |-> {}, present |-> {}, absent |-> {},
     positions |-> [p \in {1, 4} |-> IF p = 1 THEN "S" ELSE "R"], letterCounts |-> << >>]

HandAnalyses ==
    {EmptyAnalysis, AnalysisArise, AnalysisGreenX, AnalysisContradiction,
     AnalysisAbsentA, AnalysisAbsentGreenA, AnalysisPresentTE, AnalysisGreenSR}

\* a2 holds every fact of a1
FactsSubset(a1, a2) ==
    /\ a1.correct \subseteq a2.correct
    /\ a1.present \subseteq a2.present
    /\ a1.absent \subseteq a2.absent
    /\ \A p \in DOMAIN a1.positions :
          p \in DOMAIN a2.positions /\ a2.positions[p] = a1.positions[p]

\* filterWords(analyzeResults(guess, feedback), pool)
CallFilterFeedback ==
    /\ pc = "idle"
    /\ call = NoCall
    /\ \E guess \in FeedbackGuesses, secretWord \in Secrets, pool \in FilterPools :
       \E results \in {ServerFeedback(guess, secretWord)} :
       \E a \in {analyzeResults(guess, results)} :
       \E r \in {filterWords(a, pool, dictionaryCache)} :
         /\ call' = [op |-> "filterWords", from |-> "feedback", guess |-> guess,
                     secret |-> secretWord, results |-> results, analysis |-> a,
                     constraints |-> normalizeConstraints(a), pool |-> pool,
                     status |-> r.status, words |-> r.words, warm |-> dictionaryCache]
         /\ dictionaryCache' = r.cache
    /\ pc' = "called"
    /\ UNCHANGED <<startingWords, botTables, gameHistory, gameVars>>
    /\ UNCHANGED <<lru, now, inflight>>

\* filterWords(analysis, pool) with an analysis built by hand
CallFilterAnalysis ==
    /\ pc = "idle"
    /\ call = NoCall
    /\ \E a \in HandAnalyses, pool \in FilterPools :
       \E r \in {filterWords(a, pool, dictionaryCache)} :
         /\ call' = [op |-> "filterWords", from |-> "analysis", analysis |-> a,
                     constraints |-> normalizeConstraints(a), pool |-> pool,
                     status |-> r.status, words |-> r.words, warm |-> dictionaryCache]
         /\ dictionaryCache' = r.cache
    /\ pc' = "called"
    /\ UNCHANGED <<startingWords, botTables, gameHistory, gameVars>>
    /\ UNCHANGED <<lru, now, inflight>>

\* filterWords(a1, pool) and filterWords(a2, pool) on the same bot
CallFilterTwice ==
    /\ pc = "idle"
    /\ call = NoCall
    /\ \E a1 \in HandAnalyses, a2 \in HandAnalyses, pool \in FilterPools :
         /\ FactsSubset(a1, a2)
         /\ \E r1 \in {filterWords(a1, pool, dictionaryCache)} :
            \E r2 \in {filterWords(a2, pool, r1.cache)} :
              /\ call' = [op |-> "filterTwice", a1 |-> a1, a2 |-> a2, pool |-> pool,
                          status1 |-> r1.status, words1 |-> r1.words,
                          status2 |-> r2.status, words2 |-> r2.words]
              /\ dictionaryCache' = r2.cache
    /\ pc' = "called"
    /\ UNCHANGED <<startingWords, botTables, gameHistory, gameVars>>
    /\ UNCHANGED <<lru, now, inflight>>

\* an earlier filterWords call on the same bot, of which only the cache remains
EarlierFilterCall ==
    /\ pc = "idle"
    /\ call = NoCall
    /\ dictionaryCache = << >>
    /\ \E pool \in FilterPools :
         dictionaryCache' = filterWords(EmptyAnalysis, pool, dictionaryCache).cache
    /\ UNCHANGED <<startingWords, botTables, gameHistory, gameVars, pc, call>>
    /\ UNCHANGED <<lru, now, inflight>>

FilterSpec ==
    Init /\ [][CallFilterFeedback \/ CallFilterAnalysis \/ CallFilterTwice
                 \/ EarlierFilterCall]_vars

(***************************************************************************)
(* Direct calls on the bot of the shipped configuration: computePattern,   *)
(* getBestStartingWord.                                                    *)
(***************************************************************************)
\* the letters the simulated words are made of
SimLetters == {Alphabet[k] : k \in 1..Min(NumSimLetters, Len(Alphabet))}

\* every word of wordLength letters over SimLetters
SimWords == [Positions -> SimLetters]

\* the bot as the constructor leaves it with the configured starting words
PureInit ==
    /\ startingWords = ConfigStartingWords
    /\ letterFrequencies = calculateLetterFrequencies(startingWords)
    /\ positionFrequencies = initPositionFrequencies(startingWords)
    /\ gameHistory = << >>
    /\ dictionary = [all |-> TRUE, words |-> {}, special |-> << >>]
    /\ dictionaryCache = << >>
    /\ pc = "idle"
    /\ secret = << >>
    /\ gameData = NoGame
    /\ currentGuess = NoGuess
    /\ attempt = 0
    /\ analysis = EmptyAnalysis
    /\ call = NoCall
    /\ lru = NoCache
    /\ now = 0
    /\ inflight = {}

CallComputePattern ==
    /\ pc = "idle"
    /\ call = NoCall
    /\ \E guess \in SimWords, secretWord \in SimWords :
         call' = [op |-> "computePattern", guess |-> guess, secret |-> secretWord,
                  pattern |-> computePattern(guess, secretWord)]
    /\ pc' = "called"
    /\ UNCHANGED <<startingWords, botTables, dictionaryCache, gameHistory, gameVars>>
    /\ UNCHANGED <<lru, now, inflight>>

\* getBestStartingWord() on the bot built from the configuration as shipped
CallGetBestStartingWord ==
    /\ pc = "idle"
    /\ call = NoCall
    /\ LET best == getBestStartingWord(startingWords)
       IN /\ call' = [op |-> "getBestStartingWord", status |-> best.status,
                      word |-> best.word, before |-> startingWords]
          /\ startingWords' = best.startingWords
    /\ pc' = "called"
    /\ UNCHANGED <<botTables, dictionaryCache, gameHistory, gameVars>>
    /\ UNCHANGED <<lru, now, inflight>>

\* the pools entropyOf is called with: the runs of consecutive words of EnglishWords,
\* and the first words of the configured list, which repeats its words
EntropyPools ==
    {SubSeq(EnglishWords, i, j) : i \in 1..Len(EnglishWords), j \in 1..Len(EnglishWords)}
    \cup {SubSeq(ConfigStartingWords, 1, n) : n \in 1..Len(ConfigStartingWords)}

\* entropyOf(guess, pool), with the bucket sizes of partitionByPattern(guess, pool)
CallEntropyOf ==
    /\ pc = "idle"
    /\ call = NoCall
    /\ \E guess \in Range(EnglishWords) \cup Range(SecretWords), pool \in EntropyPools :
         call' = [op |-> "entropyOf", guess |-> guess, pool |-> pool,
                  entropy |-> entropyOf(guess, pool),
                  sizes |-> BucketSizes(partitionByPattern(guess, pool))]
    /\ pc' = "called"
    /\ UNCHANGED <<startingWords, botTables, dictionaryCache, gameHistory, gameVars>>
    /\ UNCHANGED <<lru, now, inflight>>

\* enumerateCandidates(limit), with the beam as it stands after each position
CallEnumerateCandidates ==
    /\ pc = "idle"
    /\ call = NoCall
    /\ \E limit \in {300, 500} :
       \E b1 \in {BeamStep(<<[word |-> << >>, score |-> 0]>>, 1)} :
       \E b2 \in {BeamStep(b1, 2)} :
       \E b3 \in {BeamStep(b2, 3)} :
       \E b4 \in {BeamStep(b3, 4)} :
       \E b5 \in {BeamStep(b4, 5)} :
       \E r \in {enumerateCandidates(limit, dictionaryCache)} :
         /\ call' = [op |-> "enumerateCandidates", limit |-> limit,
                     beams |-> <<WordsOf(b1), WordsOf(b2), WordsOf(b3), WordsOf(b4),
                                 WordsOf(b5)>>,
                     words |-> r.words, corpus |-> startingWords]
         /\ dictionaryCache' = r.cache
    /\ pc' = "called"
    /\ UNCHANGED <<startingWords, botTables, gameHistory, gameVars>>
    /\ UNCHANGED <<lru, now, inflight>>

PatternSpec ==
    PureInit /\ [][CallComputePattern \/ CallGetBestStartingWord \/ CallEntropyOf
                     \/ CallEnumerateCandidates]_vars

(***************************************************************************)
(* Direct calls of the dictionary service.                                 *)
(***************************************************************************)
\* the words for which the APIs may answer in any way
SpecialWords == SubSeq(<<W_CRANE, W_SLATE, W_TRACE, W_STARE>>, 1, NumSpecialWords)

\* every outcome of a request
Outcomes == {"200", "204", "404", "429", "network error", "timeout"}

\* the answers for one word; the arrival rank matters among 429 answers only
Replies ==
    {[primary |-> p, fallback |-> f, rank |-> r] :
        p \in Outcomes, f \in Outcomes, r \in {0, 1}} \ 
    {[primary |-> p, fallback |-> f, rank |-> 1] : p \in Outcomes \ {"429"}, f \in Outcomes}

\* APIs that answer 200 for every word but the special ones
ServiceBehaviours ==
    {[all |-> TRUE, words |-> {}, special |-> f] : f \in [Range(SpecialWords) -> Replies]}

\* a bot of the shipped configuration whose service faces any of these APIs
ServiceInit ==
    /\ startingWords = ConfigStartingWords
    /\ letterFrequencies = calculateLetterFrequencies(startingWords)
    /\ positionFrequencies = initPositionFrequencies(startingWords)
    /\ gameHistory = << >>
    /\ dictionary \in ServiceBehaviours
    /\ dictionaryCache = << >>
    /\ pc = "idle"
    /\ secret = << >>
    /\ gameData = NoGame
    /\ currentGuess = NoGuess
    /\ attempt = 0
    /\ analysis = EmptyAnalysis
    /\ call = NoCall
    /\ lru = NoCache
    /\ now = 0
    /\ inflight = {}

\* the lists validateWords is called with: the special words in one batch, in both
\* orders, and in two batches with ordinary words between the first and the rest
ServiceLists ==
    {SpecialWords, Reverse(SpecialWords),
     <<Head(SpecialWords), W_ADIEU, W_AUDIO, W_RAISE, W_ARISE>> \o Tail(SpecialWords)}

CallIsValidWord ==
    /\ pc = "idle"
    /\ call = NoCall
    /\ \E word \in Range(SpecialWords) \cup {W_ADIEU} :
         LET r == isValidWord(word, dictionaryCache)
         IN /\ call' = [op |-> "isValidWord", word |-> word, value |-> r.value,
                        requests |-> r.requests, warm |-> dictionaryCache]
            /\ dictionaryCache' = r.cache
    /\ pc' = "called"
    /\ UNCHANGED <<startingWords, botTables, gameHistory, gameVars>>
    /\ UNCHANGED <<lru, now, inflight>>

CallValidateWords ==
    /\ pc = "idle"
    /\ call = NoCall
    /\ \E words \in ServiceLists :
         LET r == validateWords(words, dictionaryCache)
         IN /\ call' = [op |-> "validateWords", words |-> words, valid |-> r.words,
                        requests |-> r.requests, warm |-> dictionaryCache]
            /\ dictionaryCache' = r.cache
    /\ pc' = "called"
    /\ UNCHANGED <<startingWords, botTables, gameHistory, gameVars>>
    /\ UNCHANGED <<lru, now, inflight>>

ServiceSpec == ServiceInit /\ [][CallIsValidWord \/ CallValidateWords]_vars

(***************************************************************************)
(* validateWords step by step: the requests of a batch are sent together   *)
(* and complete one at a time, in any order.                               *)
(***************************************************************************)
\* APIs that answer 200 but for the first two words of the list
BatchBehaviours ==
    {[all |-> TRUE, words |-> {}, special |-> f] :
        f \in [{EnglishWords[1], EnglishWords[2]} ->
                 {[primary |-> p, fallback |-> q, rank |-> 0] :
                     p \in {"200", "204", "429"}, q \in {"200", "network error"}}]}

BatchInit ==
    /\ startingWords = ConfigStartingWords
    /\ letterFrequencies = calculateLetterFrequencies(startingWords)
    /\ positionFrequencies = initPositionFrequencies(startingWords)
    /\ gameHistory = << >>
    /\ dictionary \in BatchBehaviours
    /\ dictionaryCache = << >>
    /\ pc = "idle"
    /\ secret = << >>
    /\ gameData = NoGame
    /\ currentGuess = NoGuess
    /\ attempt = 0
    /\ analysis = EmptyAnalysis
    /\ call = NoCall
    /\ lru = NoCache
    /\ now = 0
    /\ inflight = {}

\* validateWords is called: i is the start of the batch, uncached the words the
\* Promise.all of the batch waits for, verdicts[k] what the promise of uncached[k] gave
ValidateWordsStarts ==
    /\ pc = "idle"
    /\ call = NoCall
    /\ \E n \in {2, 6, 7} :
         call' = [op |-> "validateWords", words |-> SubSeq(EnglishWords, 1, n), i |-> 1,
                  useFallback |-> FALSE, uncached |-> << >>, verdicts |-> << >>,
                  valid |-> << >>]
    /\ pc' = "batch"
    /\ UNCHANGED <<startingWords, botTables, dictionaryCache, gameHistory, gameVars, lru, now,
                   inflight>>

\* the head of the loop: return, or look the batch up in the cache and send a request
\* for every word that is not there
BatchStarts ==
    /\ pc = "batch"
    /\ IF call.i > Len(call.words)
       THEN /\ pc' = "called"
            /\ UNCHANGED <<call, dictionaryCache, inflight>>
       ELSE \E looked \in {LookupBatch(SubSeq(call.words, call.i,
                                              Min(call.i + batchSize - 1, Len(call.words))),
                                       [valid |-> call.valid, uncached |-> << >>,
                                        cache |-> dictionaryCache])} :
              /\ dictionaryCache' = looked.cache
              /\ IF looked.uncached = << >>
                 THEN /\ call' = [call EXCEPT !.valid = looked.valid, !.i = @ + batchSize]
                      /\ UNCHANGED <<pc, inflight>>
                 ELSE /\ call' = [call EXCEPT !.valid = looked.valid,
                                              !.uncached = looked.uncached,
                                              !.verdicts = [k \in 1..Len(looked.uncached)
                                                              |-> "pending"] \o << >>]
                      /\ inflight' = inflight \cup
                            {[word |-> looked.uncached[k],
                              api |-> IF call.useFallback THEN "fallback" ELSE "primary",
                              retry |-> FALSE, batch |-> call.i] :
                                k \in 1..Len(looked.uncached)}
                      /\ pc' = "awaiting"
    /\ UNCHANGED <<startingWords, botTables, gameHistory, gameVars, lru, now>>

\* what the promise of a word does when its request completes: "retry" on the fallback
\* API, "throw" when the retry fails, or the verdict it resolves with
Settles(request, useFallback) ==
    LET outcome == Reply(request.word)[request.api]
    IN IF ~Throws(outcome) THEN (IF outcome = "200" THEN "valid" ELSE "invalid")
       ELSE IF request.retry THEN "throw"
       ELSE IF outcome = "429" /\ ~useFallback THEN "retry"
       ELSE "valid"

\* A request completes. Its promise retries, resolves or rejects; a rejection rejects
\* the Promise.all at once and the outer catch goes on to the next batch without the
\* delay, whatever is still on its way; the last resolution resolves the Promise.all.
RequestCompletes ==
    /\ call.op = "validateWords"
    /\ \E request \in inflight :
       \E step \in {Settles(request, call.useFallback)} :
       \E awaited \in {pc = "awaiting" /\ request.batch = call.i} :
       \E verdicts \in {IF awaited /\ step \in {"valid", "invalid"}
                        THEN [k \in 1..Len(call.uncached) |->
                                 IF call.uncached[k] = request.word THEN step
                                 ELSE call.verdicts[k]] \o << >>
                        ELSE call.verdicts} :
         /\ inflight' = (inflight \ {request}) \cup
                           (IF step = "retry"
                            THEN {[request EXCEPT !.api = "fallback", !.retry = TRUE]}
                            ELSE {})
         /\ IF step = "retry"
            THEN /\ call' = [call EXCEPT !.useFallback = TRUE]
                 /\ UNCHANGED <<pc, dictionaryCache>>
            ELSE IF ~awaited
            THEN UNCHANGED <<call, pc, dictionaryCache>>
            ELSE IF step = "throw"
            THEN \E all \in {[k \in 1..Len(call.uncached) |-> "valid"] \o << >>} :
                   /\ dictionaryCache' = StoreBatch(call.uncached, all, 1, dictionaryCache)
                   /\ call' = [call EXCEPT !.valid = @ \o call.uncached,
                                           !.i = @ + batchSize]
                   /\ pc' = "batch"
            ELSE IF \E k \in 1..Len(verdicts) : verdicts[k] = "pending"
            THEN /\ call' = [call EXCEPT !.verdicts = verdicts]
                 /\ UNCHANGED <<pc, dictionaryCache>>
            ELSE /\ dictionaryCache' = StoreBatch(call.uncached, verdicts, 1,
                                                  dictionaryCache)
                 /\ IF call.i + batchSize <= Len(call.words)
                    THEN /\ call' = [call EXCEPT !.verdicts = verdicts,
                                                 !.valid = @ \o Passed(call.uncached,
                                                                       verdicts)]
                         /\ pc' = "delay"
                    ELSE /\ call' = [call EXCEPT !.verdicts = verdicts,
                                                 !.valid = @ \o Passed(call.uncached,
                                                                       verdicts),
                                                 !.i = @ + batchSize]
                         /\ pc' = "batch"
    /\ UNCHANGED <<startingWords, botTables, gameHistory, gameVars, lru, now>>

\* the delay between two batches is over
BatchDelayEnds ==
    /\ pc = "delay"
    /\ call' = [call EXCEPT !.i = @ + batchSize]
    /\ pc' = "batch"
    /\ UNCHANGED <<startingWords, botTables, dictionaryCache, gameHistory, gameVars, lru, now,
                   inflight>>

BatchSpec ==
    BatchInit /\ [][ValidateWordsStarts \/ BatchStarts \/ RequestCompletes
                      \/ BatchDelayEnds]_vars

(***************************************************************************)
(* makeGuess step by step: one request at a time, a delay after a failure. *)
(***************************************************************************)
\* a loop that goes round once more than it should
LoopContinuesOnceMore(n) == n <= retries + 1

\* for (let attempt = 1; attempt <= this.config.api.retries; attempt++)
LoopContinues(n) == n <= retries

\* the puzzle server holds a word; nothing has been asked
RetryInit ==
    /\ startingWords = ConfigStartingWords
    /\ letterFrequencies = calculateLetterFrequencies(startingWords)
    /\ positionFrequencies = initPositionFrequencies(startingWords)
    /\ gameHistory = << >>
    /\ dictionary = [all |-> TRUE, words |-> {}, special |-> << >>]
    /\ dictionaryCache = << >>
    /\ pc = "idle"
    /\ secret \in Secrets
    /\ gameData = NoGame
    /\ currentGuess = NoGuess
    /\ attempt = 0
    /\ analysis = EmptyAnalysis
    /\ call = NoCall
    /\ lru = NoCache
    /\ now = 0
    /\ inflight = {}

\* makeGuess is called and sends the request of its first attempt; with no attempt
\* to make it throws at once
CallMakeGuess ==
    /\ pc = "idle"
    /\ call = NoCall
    /\ \E guess \in Range(TestWords) :
         IF LoopContinues(1)
         THEN /\ call' = [op |-> "makeGuess", guess |-> guess, attempt |-> 1, sent |-> 1,
                          failed |-> 0, lastError |-> "", delay |-> 0,
                          outcome |-> "pending", data |-> << >>]
              /\ inflight' = {[guess |-> guess, attempt |-> 1]}
              /\ pc' = "requesting"
         ELSE /\ call' = [op |-> "makeGuess", guess |-> guess, attempt |-> 1, sent |-> 0,
                          failed |-> 0, lastError |-> "", delay |-> 0,
                          outcome |-> "thrown", data |-> << >>]
              /\ pc' = "called"
              /\ UNCHANGED inflight
    /\ UNCHANGED <<startingWords, botTables, dictionaryCache, gameHistory, gameVars, lru, now>>

\* the request is answered: return response.data
RequestReturns ==
    /\ pc = "requesting"
    /\ \E request \in inflight :
         /\ inflight' = inflight \ {request}
         /\ call' = [call EXCEPT !.outcome = "returned",
                                 !.data = ServerFeedback(request.guess, secret)]
    /\ pc' = "called"
    /\ UNCHANGED <<startingWords, botTables, dictionaryCache, gameHistory, gameVars, lru, now>>

\* the request fails: the catch block, which delays unless this was the last attempt;
\* after the last attempt the loop ends and makeGuess throws
RequestFails ==
    /\ pc = "requesting"
    /\ \E request \in inflight, error \in {"network error", "timeout", "500"} :
         /\ inflight' = inflight \ {request}
         /\ IF call.attempt < retries
            THEN /\ call' = [call EXCEPT !.failed = @ + 1, !.lastError = error,
                                         !.delay = 1000 * call.attempt]
                 /\ pc' = "waiting"
            ELSE IF LoopContinues(call.attempt + 1)
            THEN /\ call' = [call EXCEPT !.failed = @ + 1, !.lastError = error,
                                         !.delay = 0]
                 /\ pc' = "waiting"
            ELSE /\ call' = [call EXCEPT !.failed = @ + 1, !.lastError = error,
                                         !.outcome = "thrown"]
                 /\ pc' = "called"
    /\ UNCHANGED <<startingWords, botTables, dictionaryCache, gameHistory, gameVars, lru, now>>

\* the delay is over: the next round of the loop sends its request
DelayEnds ==
    /\ pc = "waiting"
    /\ IF LoopContinues(call.attempt + 1)
       THEN /\ call' = [call EXCEPT !.attempt = @ + 1, !.sent = @ + 1, !.delay = 0]
            /\ inflight' = {[guess |-> call.guess, attempt |-> call.attempt + 1]}
            /\ pc' = "requesting"
       ELSE /\ call' = [call EXCEPT !.attempt = @ + 1, !.outcome = "thrown"]
            /\ pc' = "called"
            /\ UNCHANGED inflight
    /\ UNCHANGED <<startingWords, botTables, dictionaryCache, gameHistory, gameVars, lru, now>>

RetrySpec ==
    RetryInit /\ [][CallMakeGuess \/ RequestReturns \/ RequestFails \/ DelayEnds]_vars

(***************************************************************************)
(* LRUCache with its time to live (utils/lru-cache), called directly.      *)
(***************************************************************************)
\* the last reading of the clock
MaxTime == 3
CacheKeys == {"a", "b", "c"}
\* the caches that are constructed: new LRUCache(maxSize, ttlMs)
NewCaches == {[maxSize |-> m, ttl |-> t, cache |-> << >>] : m \in {1, 2}, t \in {0, 1}}
Undefined == "undefined"

ItemOf(cache, key) == cache[CHOOSE i \in 1..Len(cache) : cache[i].key = key]

\* a get that renews the lifetime of the entry it reads
lruGetRenewing(c, key, t) ==
    IF ~cacheHas(c.cache, key) THEN [value |-> Undefined, cache |-> c.cache]
    ELSE IF t > ItemOf(c.cache, key).expiry
         THEN [value |-> Undefined, cache |-> cacheWithout(c.cache, key)]
         ELSE [value |-> ItemOf(c.cache, key).value,
               cache |-> Append(cacheWithout(c.cache, key),
                                [ItemOf(c.cache, key) EXCEPT !.expiry = t + c.ttl])]

\* a get that leaves the entry where it is in the Map
lruGetInPlace(c, key, t) ==
    IF ~cacheHas(c.cache, key) THEN [value |-> Undefined, cache |-> c.cache]
    ELSE IF t > ItemOf(c.cache, key).expiry
         THEN [value |-> Undefined, cache |-> cacheWithout(c.cache, key)]
         ELSE [value |-> ItemOf(c.cache, key).value, cache |-> c.cache]

\* LRUCache.get at time t: [value, cache]
lruGet(c, key, t) ==
    IF ~cacheHas(c.cache, key) THEN [value |-> Undefined, cache |-> c.cache]
    ELSE IF t > ItemOf(c.cache, key).expiry
         THEN [value |-> Undefined, cache |-> cacheWithout(c.cache, key)]
         ELSE [value |-> ItemOf(c.cache, key).value,
               cache |-> Append(cacheWithout(c.cache, key), ItemOf(c.cache, key))]

\* a set that never makes room
lruSetNoEviction(c, key, value, t) ==
    Append(cacheWithout(c.cache, key), [key |-> key, value |-> value, expiry |-> t + c.ttl])

\* LRUCache.set at time t: the Map afterwards
lruSet(c, key, value, t) ==
    Append(IF cacheHas(c.cache, key) THEN cacheWithout(c.cache, key)
           ELSE IF Len(c.cache) >= c.maxSize /\ c.cache # << >> THEN Tail(c.cache)
           ELSE c.cache,
           [key |-> key, value |-> value, expiry |-> t + c.ttl])

\* LRUCache.cleanExpired at time t
lruCleanExpired(c, t) == SelectSeq(c.cache, LAMBDA e : ~(t > e.expiry))

\* the keys of a history of uses with key as the latest
Touch(order, key) == Append(SelectSeq(order, LAMBDA k : k # key), key)

\* A call of the cache and what is known of the calls before it: setAt[k] is the time
\* of the last set of k (Null if none), reread the keys that a get returned at a later
\* time than their last set, recency the keys in the order of their last set or
\* successful get, before the Map as the call found it.
CacheCall(op, key, value, setAt, reread, recency) ==
    [op |-> op, key |-> key, value |-> value, at |-> now, before |-> lru.cache,
     setAt |-> setAt, reread |-> reread, recency |-> recency]

\* a cache of its own; the bot beside it has no starting words
CacheInit ==
    /\ startingWords = << >>
    /\ letterFrequencies = calculateLetterFrequencies(startingWords)
    /\ positionFrequencies = initPositionFrequencies(startingWords)
    /\ gameHistory = << >>
    /\ dictionary = [all |-> TRUE, words |-> {}, special |-> << >>]
    /\ dictionaryCache = << >>
    /\ pc = "idle"
    /\ secret = << >>
    /\ gameData = NoGame
    /\ currentGuess = NoGuess
    /\ attempt = 0
    /\ analysis = EmptyAnalysis
    /\ lru \in NewCaches
    /\ now = 0
    /\ inflight = {}
    /\ call = [op |-> "new", key |-> "", value |-> Undefined, at |-> 0, before |-> << >>,
               setAt |-> [k \in CacheKeys |-> Null], reread |-> {}, recency |-> << >>]

CacheSet ==
    /\ \E key \in CacheKeys, value \in {"x", "y"} :
       \E r \in {lruSet(lru, key, value, now)} :
         /\ lru' = [lru EXCEPT !.cache = r]
         /\ call' = CacheCall("set", key, value, [call.setAt EXCEPT ![key] = now],
                              call.reread \ {key}, Touch(call.recency, key))
    /\ UNCHANGED <<startingWords, botTables, dictionaryCache, gameHistory, gameVars, pc,
                   now, inflight>>

CacheGet ==
    /\ \E key \in CacheKeys :
       \E r \in {lruGet(lru, key, now)} :
         /\ lru' = [lru EXCEPT !.cache = r.cache]
         /\ call' = CacheCall("get", key, r.value, call.setAt,
                              IF r.value # Undefined /\ now > call.setAt[key]
                              THEN call.reread \cup {key} ELSE call.reread,
                              IF r.value = Undefined THEN call.recency
                              ELSE Touch(call.recency, key))
    /\ UNCHANGED <<startingWords, botTables, dictionaryCache, gameHistory, gameVars, pc,
                   now, inflight>>

CacheClear ==
    /\ lru' = [lru EXCEPT !.cache = << >>]
    /\ call' = CacheCall("clear", "", Undefined, call.setAt, call.reread,
                         call.recency)
    /\ UNCHANGED <<startingWords, botTables, dictionaryCache, gameHistory, gameVars, pc,
                   now, inflight>>

CacheSize ==
    /\ call' = CacheCall("size", "", Len(lru.cache), call.setAt, call.reread,
                         call.recency)
    /\ UNCHANGED <<startingWords, botTables, dictionaryCache, gameHistory, gameVars, pc,
                   lru, now, inflight>>

CacheCleanExpired ==
    /\ lru' = [lru EXCEPT !.cache = lruCleanExpired(lru, now)]
    /\ call' = CacheCall("cleanExpired", "", Undefined, call.setAt, call.reread,
                         call.recency)
    /\ UNCHANGED <<startingWords, botTables, dictionaryCache, gameHistory, gameVars, pc,
                   now, inflight>>

\* the clock advances between two calls
TimePasses ==
    /\ now < MaxTime
    /\ now' = now + 1
    /\ UNCHANGED <<startingWords, botTables, dictionaryCache, gameHistory, gameVars, pc,
                   call, lru, inflight>>

CacheSpec ==
    CacheInit /\ [][CacheSet \/ CacheGet \/ CacheClear \/ CacheSize \/ CacheCleanExpired
                      \/ TimePasses]_vars

\* the positions of the guess that hold ch and are marked green or yellow
Marked(guess, pattern, ch) ==
    {i \in 1..Len(guess) : guess[i] = ch /\ pattern[i] \in {Green, Yellow}}

\* C4: for every guess and secret of equal length and every letter, computePattern
\* marks at most as many occurrences of the letter green or yellow as the secret holds
C4_NoOverCount ==
    call.op = "computePattern" =>
        \A ch \in Letters :
            Cardinality(Marked(call.guess, call.pattern, ch)) <= Count(call.secret, ch)

\* a guess that repeats a letter of the secret more often than the secret holds it:
\* one occurrence is green, every occurrence the secret has is used up, one stays grey
C4_Witness ==
    /\ call.op = "computePattern"
    /\ \E ch \in Letters :
          /\ Count(call.secret, ch) >= 1
          /\ Count(call.guess, ch) > Count(call.secret, ch)
          /\ Cardinality(Marked(call.guess, call.pattern, ch)) = Count(call.secret, ch)
          /\ \E i \in 1..Len(call.guess) : call.guess[i] = ch /\ call.pattern[i] = Green
          /\ \E i \in 1..Len(call.guess) : call.guess[i] = ch /\ call.pattern[i] = Grey

(***************************************************************************)
(* Properties.                                                             *)
(***************************************************************************)
\* C1: filter soundness. The feedback of a guess against a secret of the same
\* length, analysed by analyzeResults and applied by filterWords to a pool that
\* holds the secret, with a dictionary that accepts every word, keeps the secret.
C1_FilterSoundness ==
    (/\ call.op = "filterWords"
     /\ call.from = "feedback"
     /\ dictionary.all
     /\ Len(call.guess) = Len(call.secret)
     /\ Includes(call.pool, call.secret))
    => (call.status = "ok" /\ Includes(call.words, call.secret))

\* the letters of round j of the game that are absent at each of their positions
AbsentEverywhere(j) ==
    {gameData.guesses[j][i] : i \in 1..Len(gameData.guesses[j])}
    \ {gameData.guesses[j][i] :
          i \in {n \in 1..Len(gameData.guesses[j]) : gameData.results[j][n] # "absent"}}

\* C2: within one game the constraints that choose guess k+1 hold the feedback of
\* every guess 1..k: a position an earlier guess got correct is still fixed, and a
\* letter an earlier guess found absent everywhere is still forbidden.
C2_AccumulatedConstraints ==
    (pc = "playing" /\ attempt >= 2) =>
        \A j \in 1..Len(gameData.guesses) :
            /\ \A i \in 1..Len(gameData.guesses[j]) :
                  gameData.results[j][i] = "correct" =>
                      /\ i \in DOMAIN analysis.positions
                      /\ analysis.positions[i] = gameData.guesses[j][i]
            /\ AbsentEverywhere(j) \subseteq normalizeConstraints(analysis).forbidden

\* C3: generateNextGuess never returns a word of previousGuesses, in any branch,
\* and so playGame never submits a word it has already submitted in the game.
C3_NeverRepeatsGuess ==
    /\ (call.op = "generateNextGuess" /\ call.status = "ok")
          => ~Includes(call.previousGuesses, call.word)
    /\ (pc = "playing" /\ currentGuess.status = "ok")
          => ~Includes(gameData.guesses, currentGuess.word)

C6_NoGuessFoundSurfaced ==
    /\ (/\ call.op = "generateNextGuess"
        /\ startingWords = << >>
        /\ call.branch \in {"start", "entropy-start"})
          => call.status = "throw"
    /\ \A k \in 1..Len(gameHistory) :
          (/\ ~gameHistory[k].success
           /\ gameHistory[k].attempts < maxAttempts)
          => gameHistory[k].error # ""

\* C7: an analysis whose letterCounts hold, for some letter, a minimum above the
\* maximum makes normalizeConstraints fail, and filterWords with it.
C7_ContradictionFails ==
    (/\ call.op = "filterWords"
     /\ \E ch \in DOMAIN call.analysis.letterCounts :
           /\ call.analysis.letterCounts[ch].max # Null
           /\ call.analysis.letterCounts[ch].min > call.analysis.letterCounts[ch].max)
    => (call.constraints.error /\ call.status = "throw")

\* C8: duplicate-letter rule. A letter of the guess with a correct or present
\* occurrence and an absent occurrence gets maxCounts equal to the number of its
\* correct and present occurrences, and is not forbidden, whatever their order.
C8_DuplicateLetterRule ==
    (call.op = "filterWords" /\ call.from = "feedback") =>
        \A ch \in Letters :
            (/\ KnownCount(call.guess, call.results, ch) > 0
             /\ \E i \in 1..Len(call.guess) :
                   call.guess[i] = ch /\ call.results[i] = "absent")
            => (/\ call.constraints.maxCounts[ch]
                      = KnownCount(call.guess, call.results, ch)
                /\ ch \notin call.constraints.forbidden)

\* C9: filterWords(analysis, pool) returns words of the pool only, also when no
\* word of the pool satisfies the constraints.
C9_SubsetOfPool ==
    (call.op = "filterWords" /\ call.status = "ok") =>
        \A k \in 1..Len(call.words) : Includes(call.pool, call.words[k])

\* C10: monotonic narrowing. When a2 holds every fact of a1, every word of
\* filterWords(a2, pool) is a word of filterWords(a1, pool), same pool and dictionary.
C10_MonotonicNarrowing ==
    (/\ call.op = "filterTwice"
     /\ FactsSubset(call.a1, call.a2)
     /\ call.status1 = "ok"
     /\ call.status2 = "ok")
    => \A k \in 1..Len(call.words2) : Includes(call.words1, call.words2[k])

\* C11: enumerateCandidates is invoked during generateNextGuess only if the filtered
\* pool is empty: a call whose filtered pool holds a word synthesizes nothing.
C11_SynthesisOnlyWhenEmpty ==
    (call.op = "generateNextGuess" /\ Len(call.remainingWords) > 0) =>
        call.synth = << >>

\* C12: for an analysis that holds present letters only, filterWords on a service
\* that accepts every word and has cached nothing returns exactly the words of the
\* list that contain every present letter, in list order.
C12_PresentLettersKept ==
    (/\ call.op = "filterWords"
     /\ call.from = "analysis"
     /\ call.analysis.present # {}
     /\ call.analysis.correct = {}
     /\ call.analysis.absent = {}
     /\ DOMAIN call.analysis.positions = {}
     /\ DOMAIN call.analysis.letterCounts = {}
     /\ dictionary.all
     /\ call.warm = << >>)
    => /\ call.status = "ok"
       /\ call.words = SelectSeq(call.pool,
                                 LAMBDA w : \A p \in call.analysis.present : Includes(w, p))

\* C13: for an analysis that holds green positions only, filterWords on a service
\* that accepts every word and has cached nothing returns exactly the words of the
\* pool that hold every green letter at its position, in pool order.
C13_GreenPositionsKept ==
    (/\ call.op = "filterWords"
     /\ call.from = "analysis"
     /\ DOMAIN call.analysis.positions # {}
     /\ call.analysis.present = {}
     /\ call.analysis.absent = {}
     /\ DOMAIN call.analysis.letterCounts = {}
     /\ dictionary.all
     /\ call.warm = << >>)
    => /\ call.status = "ok"
       /\ call.words =
             SelectSeq(call.pool,
                       LAMBDA w : \A pos \in DOMAIN call.analysis.positions :
                                     pos <= Len(w) /\ w[pos] = call.analysis.positions[pos])

\* the words of a list that are also in another, in the order of the first
RestrictedTo(words, others) == SelectSeq(words, LAMBDA w : Includes(others, w))

\* C14: filterWords returns the surviving pool words in the same relative order as in
\* the pool, whether the dictionary cache is cold, warm or partly warm.
C14_OrderPreserved ==
    (call.op = "filterWords" /\ call.status = "ok") =>
        RestrictedTo(call.words, call.pool) = RestrictedTo(call.pool, call.words)

\* C15: when no word of the bot's list satisfies the analysis (some green letter is
\* at its position in no word of the list), generateNextGuess returns one of the
\* configured starting words.
C15_FallsBackToStartingWord ==
    (/\ call.op = "generateNextGuess"
     /\ call.before # << >>
     /\ \E pos \in DOMAIN call.analysis.positions :
           \A k \in 1..Len(call.before) :
               call.before[k][pos] # call.analysis.positions[pos])
    => (call.status = "ok" /\ Includes(call.before, call.word))

\* the indices of the filtered pool whose word is not a previous guess
FreshIndices == {k \in 1..Len(call.remainingWords) :
                    ~Includes(call.previousGuesses, call.remainingWords[k])}

\* C16: endgame. When the filtered pool holds one or two words and at least one of
\* them is not a previous guess, generateNextGuess returns the first word of the
\* pool that is not a previous guess.
C16_EndgameFirstFresh ==
    (/\ call.op = "generateNextGuess"
     /\ Len(call.remainingWords) \in {1, 2}
     /\ FreshIndices # {})
    => /\ call.status = "ok"
       /\ call.word = call.remainingWords[CHOOSE k \in FreshIndices : \A j \in FreshIndices : k <= j]

\* an endgame call whose pool starts with a previous guess: the second word is returned
C16_Witness ==
    /\ call.op = "generateNextGuess"
    /\ call.branch = "endgame"
    /\ Len(call.remainingWords) = 2
    /\ FreshIndices = {2}
    /\ call.word = call.remainingWords[2]

\* C17: minimax. When the filtered pool holds 3 to 20 words and the corpus holds a
\* word that is not a previous guess, generateNextGuess returns such a word whose
\* worstCaseBucket against the pool is the least among all of them.
C17_MinimaxLeastWorstCase ==
    (/\ call.op = "generateNextGuess"
     /\ Len(call.remainingWords) >= 3
     /\ Len(call.remainingWords) <= 20
     /\ call.availableWords # << >>)
    => /\ call.status = "ok"
       /\ Includes(call.availableWords, call.word)
       /\ \A k \in 1..Len(call.availableWords) :
             worstCaseBucket(call.word, call.remainingWords)
                <= worstCaseBucket(call.availableWords[k], call.remainingWords)

\* a minimax call in which some eligible word has a larger worst case than the
\* returned one, and the returned one is not the first of the corpus
C17_Witness ==
    /\ call.op = "generateNextGuess"
    /\ call.branch \in {"minimax", "minimax-tie"}
    /\ call.word # call.availableWords[1]
    /\ \E k \in 1..Len(call.availableWords) :
          worstCaseBucket(call.word, call.remainingWords)
             < worstCaseBucket(call.availableWords[k], call.remainingWords)

\* word v comes before word w in lexical order
LexLess(v, w) ==
    \E i \in 1..Min(Len(v), Len(w)) :
        /\ \A j \in 1..(i - 1) : v[j] = w[j]
        /\ IndexOf(Alphabet, v[i]) < IndexOf(Alphabet, w[i])

\* C18: ties are broken deterministically. A candidate with the same score as the
\* returned word has a lower entropy than it, or the same entropy and a lexically
\* larger word, and listing the candidates in the opposite order returns the same word.
C18_DeterministicTieBreak ==
    (call.op = "generateNextGuess" /\ call.ranked # << >>) =>
        /\ \A k \in 2..Len(call.ranked) :
              call.ranked[k].score = call.ranked[1].score =>
                  LET best == entropyOf(call.ranked[1].word, call.rankPool)
                      other == entropyOf(call.ranked[k].word, call.rankPool)
                  IN \/ other < best
                     \/ (other = best /\ LexLess(call.ranked[1].word, call.ranked[k].word))
        /\ SortDesc(Reverse(call.ranked))[1].word = call.ranked[1].word

\* C19: no step of the bot (getBestStartingWord, generateNextGuess, playGame) changes
\* the configured starting-word list: it keeps the same words in the same order.
C19_StartingWordsUnchanged == [][startingWords' = startingWords]_vars

\* the requests of the call that ended in a network error or a timeout
FailedRequests ==
    {q \in call.requests : q.outcome \in {"network error", "timeout"}}

\* C20: validator failure means "assume valid". When a request of isValidWord fails
\* by network error or timeout, at the primary API or at the fallback API after a
\* rate limit, the call returns true; when a request of validateWords fails so, the
\* returned list includes the word the request was for. Both calls return.
C20_FailureAssumesValid ==
    /\ (call.op = "isValidWord" /\ FailedRequests # {}) => call.value = TRUE
    /\ call.op = "validateWords" =>
          \A q \in FailedRequests : Includes(call.valid, q.word)

\* a validateWords call whose first 429 retried at the fallback API, where the
\* request timed out or met a network error, with the word in the returned list
C20_Witness ==
    /\ call.op = "validateWords"
    /\ \E q \in FailedRequests :
          /\ q.api = "fallback"
          /\ [word |-> q.word, api |-> "primary", outcome |-> "429"] \in call.requests
          /\ Includes(call.valid, q.word)

\* C21: the batch validator drops what the dictionary reports as not a word. With the
\* same dictionary answers and an empty cache, validateWords(words) contains a word
\* exactly when isValidWord of that word returns true; a word answered with 404 is
\* excluded by both.
C21_BatchAgreesWithSingle ==
    (call.op = "validateWords" /\ call.warm = << >>) =>
        \A i \in 1..Len(call.words) :
            Includes(call.valid, call.words[i])
                <=> isValidWord(call.words[i], << >>).value

\* C28: every game record of gameHistory has as many guesses as results, that number
\* is its attempts and is at most maxAttempts, and its success flag is true exactly
\* when its last recorded feedback is all "correct"; whatever ended the game.
C28_GameRecordsConsistent ==
    \A k \in 1..Len(gameHistory) :
        LET game == gameHistory[k]
            last == game.results[Len(game.results)]
        IN /\ Len(game.guesses) = Len(game.results)
           /\ Len(game.results) = game.attempts
           /\ game.attempts <= maxAttempts
           /\ game.success <=>
                 (Len(game.results) > 0 /\ \A i \in 1..Len(last) : last[i] = "correct")

\* a game that an API error ended after feedback was recorded, some of it correct
C28_Witness ==
    \E k \in 1..Len(gameHistory) :
        /\ gameHistory[k].error = "API call failed"
        /\ gameHistory[k].attempts >= 2
        /\ ~gameHistory[k].success
        /\ \E i \in Positions :
              gameHistory[k].results[gameHistory[k].attempts][i] = "correct"

\* C24: in the empty-pool branch the strict re-check implies the filter predicate.
\* Every synthesized word that matchesAnalysis accepts for an analysis (the words the
\* beam branch ranks) passes the constraint test of filterWords for that analysis.
C24_StrictCheckImpliesFilter ==
    (call.op = "generateNextGuess" /\ call.branch = "beam") =>
        \A k \in 1..Len(call.ranked) :
            /\ matchesAnalysis(call.ranked[k].word, call.analysis)
            /\ PassesConstraints(call.ranked[k].word, normalizeConstraints(call.analysis))

C25_BeamWords ==
    call.op = "enumerateCandidates" =>
        /\ \A pos \in 1..Len(call.beams) : Len(call.beams[pos]) <= 100
        /\ \A k \in 1..Len(call.beams[wordLength]) :
              LET word == call.beams[wordLength][k]
              IN /\ Len(word) = wordLength
                 /\ \A i \in 1..Len(word) :
                       \E c \in 1..Len(call.corpus) : call.corpus[c][i] = word[i]
                 /\ \E i \in 1..3 : Includes(vowels, word[i])
                 /\ ~\E i \in 3..(Len(word) - 1) :
                        \A j \in (i - 2)..i : ~Includes(vowels, word[j])

\* a search in which a partial word without a vowel was discarded at the third
\* position, where the beam was not full, and the beam was cut to 100 afterwards
C25_Witness ==
    /\ call.op = "enumerateCandidates"
    /\ Len(call.beams[3]) < 100
    /\ \E k \in 1..Len(call.beams[2]) : \E c \in 1..Len(call.corpus) :
          /\ \A i \in 1..2 : ~Includes(vowels, call.beams[2][k][i])
          /\ ~Includes(vowels, call.corpus[c][3])
          /\ ~Includes(call.beams[3], Append(call.beams[2][k], call.corpus[c][3]))
    /\ Len(call.beams[4]) = 100
    /\ Len(call.beams[wordLength]) = 100

\* C27: LRUCache.get returns a value only if the key was last set at most ttl time
\* units before the call; otherwise it returns undefined and leaves no entry of the
\* key behind; an entry that was read keeps the expiry its last set gave it.
C27_GetWithinLifetime ==
    call.op = "get" =>
        /\ call.value # Undefined =>
              /\ call.setAt[call.key] # Null
              /\ call.at - call.setAt[call.key] <= lru.ttl
              /\ cacheHas(lru.cache, call.key)
              /\ ItemOf(lru.cache, call.key).expiry = call.setAt[call.key] + lru.ttl
        /\ call.value = Undefined => ~cacheHas(lru.cache, call.key)

\* a get that found an entry just past its lifetime, removed it and returned
\* undefined, although a get had returned the entry since it was set
C27_Witness ==
    /\ call.op = "get"
    /\ call.value = Undefined
    /\ cacheHas(call.before, call.key)
    /\ ~cacheHas(lru.cache, call.key)
    /\ call.key \in call.reread
    /\ call.at = call.setAt[call.key] + lru.ttl + 1

C30_EvictsLeastRecentlyUsed ==
    LET stored == {lru.cache[i].key : i \in 1..Len(lru.cache)}
        found == {call.before[i].key : i \in 1..Len(call.before)}
        \* the key found whose last set or successful get is the oldest
        oldest == CHOOSE k \in found :
                      \A j \in found : IndexOf(call.recency, k) <= IndexOf(call.recency, j)
    IN call.op = "set" =>
          /\ (call.key \notin found /\ Len(call.before) >= lru.maxSize) =>
                stored = (found \ {oldest}) \cup {call.key}
          /\ call.key \in found => stored = found

\* a set into a full cache of two entries that removed the entry set last, the other
\* entry having been read since
C30_Witness ==
    /\ call.op = "set"
    /\ lru.maxSize = 2
    /\ Len(call.before) = 2
    /\ ~cacheHas(call.before, call.key)
    /\ call.before[1].expiry > call.before[2].expiry
    /\ ~cacheHas(lru.cache, call.before[1].key)
    /\ cacheHas(lru.cache, call.before[2].key)

\* C26: makeGuess sends at most config.api.retries requests for one guess; it returns
\* the first successful response and sends nothing after it; it throws only after
\* exactly `retries` failed attempts in a row.
C26_AtMostRetriesRequests ==
    call.op = "makeGuess" =>
        /\ call.sent <= retries
        /\ Cardinality(inflight) <= 1
        /\ call.outcome = "returned" =>
              /\ call.sent = call.failed + 1
              /\ inflight = {}
              /\ pc = "called"
              /\ call.data = ServerFeedback(call.guess, secret)
        /\ call.outcome = "thrown" =>
              /\ call.failed = retries
              /\ call.sent = retries
              /\ inflight = {}

\* makeGuess returned the answer to its last attempt after the attempts before failed
C26_Witness ==
    /\ call.op = "makeGuess"
    /\ call.outcome = "returned"
    /\ call.failed = retries - 1
    /\ call.sent = retries

\* C22: during validateWords at most batchSize dictionary requests are outstanding at
\* any moment, and the outstanding requests belong to one batch: no request of the
\* next batch starts before every request of the current batch has completed.
C22_AtMostBatchSizeOutstanding ==
    call.op = "validateWords" =>
        /\ Cardinality(inflight) <= batchSize
        /\ \A r1 \in inflight, r2 \in inflight : r1.batch = r2.batch

=============================================================================
